---- MODULE Spec2Model ----
(***************************************************************************)
(* Network diagnostics probing engine of networking-toolbox: the AXFR      *)
(* prober, the blacklist (DNSBL) checker, the resolver comparator and the  *)
(* TLS probes, modelled from the request handlers under src/.              *)
(*                                                                         *)
(* Text that the code parses (dig output) is a sequence of one-character   *)
(* strings, so that split, trim, startsWith, includes and the regular      *)
(* expressions are computed character by character as the code does.      *)
(***************************************************************************)
EXTENDS Integers, Sequences, FiniteSets, TLC

VARIABLES
    txOut,      \* testAXFR under test: stdout + stderr of one dig run
    txRes,      \* testAXFR under test: the NameserverResult it returns
    axPc,       \* AXFR POST: position of the handler
    axReq,      \* AXFR POST: trimmedDomain, once the body passed validation
    axProbes,   \* AXFR POST: one entry per nameserver callback of Promise.all
    axResp,     \* AXFR POST: the response (status, nameservers, summary)
    axIO,       \* AXFR POST: network operations started so far
    rbProbe,    \* checkRBL under test: the call (stage, locals, result)
    rbSeen,     \* checkRBL under test: what the two lookups settled with
    dnPc,       \* DNSBL POST: position of the handler
    dnReq,      \* DNSBL POST: trimmedTarget, type and ips of resolveTarget
    dnBatch,    \* DNSBL POST: number of Promise.all batches started
    dnProbes,   \* DNSBL POST: the checkRBL calls of the batch being awaited
    dnResults,  \* DNSBL POST: allResults
    dnResp,     \* DNSBL POST: the response (status, results, summary)
    dnIO,       \* DNSBL POST: network operations started so far
    pfPc,       \* resolver comparator POST: position of the handler
    pfReq,      \* resolver comparator POST: trimmedDomain and recordType
    pfProbes,   \* resolver comparator POST: one entry per resolver callback
    pfResp,     \* resolver comparator POST: the response
    pfIO,       \* resolver comparator POST: network operations started so far
    tlPc,       \* TLS POST: position of the handler
    tlReq,      \* TLS POST: action, host and port being probed
    tlProbes,   \* TLS POST: sockets and timers created so far
    tlOut,      \* TLS POST: results and errors of probeTLSVersions, OCSP flag
    tlResp,     \* TLS POST: the response
    tlIO,       \* TLS POST: network operations started so far
    fnArg,      \* a function under test: its argument
    fnRet,      \* a function under test: the value it returned
    pgRequestId,  \* query-performance page: requestId
    pgLoading,    \* query-performance page: loading
    pgError,      \* query-performance page: error (<<>> is null)
    pgResults,    \* query-performance page: results (<<>> is null)
    pgCalls,      \* query-performance page: the testPerformance invocations
    bmBrowser,    \* bookmarks store: $app/environment browser
    bmList,       \* bookmarks store: the value of the writable
    bmStorage,    \* bookmarks store: localStorage['bookmarked-tools']
    bmCache,      \* bookmarks store: hrefs handed to cacheBookmark
    bmLast        \* bookmarks store: the last call and the list it found

vars == <<txOut, txRes, axPc, axReq, axProbes, axResp, axIO,
          rbProbe, rbSeen, dnPc, dnReq, dnBatch, dnProbes, dnResults, dnResp, dnIO,
          pfPc, pfReq, pfProbes, pfResp, pfIO,
          tlPc, tlReq, tlProbes, tlOut, tlResp, tlIO, fnArg, fnRet,
          pgRequestId, pgLoading, pgError, pgResults, pgCalls,
          bmBrowser, bmList, bmStorage, bmCache, bmLast>>

fnVars == <<fnArg, fnRet>>

pgVars == <<pgRequestId, pgLoading, pgError, pgResults, pgCalls>>
bmVars == <<bmBrowser, bmList, bmStorage, bmCache, bmLast>>

pfVars == <<pfPc, pfReq, pfProbes, pfResp, pfIO>>
tlVars == <<tlPc, tlReq, tlProbes, tlOut, tlResp, tlIO>>

rbVars == <<rbProbe, rbSeen>>
dnVars == <<dnPc, dnReq, dnBatch, dnProbes, dnResults, dnResp, dnIO>>

axVars == <<axPc, axReq, axProbes, axResp, axIO>>
txVars == <<txOut, txRes>>

\* JavaScript undefined, for optional fields and missing request members
Undefined == "<undefined>"

\* JavaScript truthiness of a string-or-undefined value
Truthy(s) == s # Undefined /\ s # ""

Min(a, b) == IF a <= b THEN a ELSE b

\* The handlers share no state, so one request (or one call under test) is
\* followed at a time: a handler is entered only while nothing else is in service.
Quiet ==
    /\ axPc = "idle" /\ dnPc = "idle" /\ pfPc = "idle" /\ tlPc = "idle"
    /\ rbProbe = <<>> /\ txRes = <<>> /\ fnArg = <<>> /\ fnRet = <<>>

IdleFn == fnArg = <<>> /\ fnRet = <<>>

\* the page before any invocation of testPerformance: lines 51-56
IdlePage ==
    /\ pgRequestId = 0
    /\ pgLoading = FALSE
    /\ pgError = <<>>
    /\ pgResults = <<>>
    /\ pgCalls = <<>>

\* the bookmarks store imported outside the browser, never called
IdleBookmarks ==
    /\ bmBrowser = FALSE
    /\ bmList = <<>>
    /\ bmStorage = [kind |-> "null", json |-> <<>>]
    /\ bmCache = {}
    /\ bmLast = <<>>

\* Array.prototype.filter(...).length
CountIf(seq, P(_)) == Cardinality({i \in 1..Len(seq) : P(seq[i])})

\* Array.prototype.filter
Filter(seq, P(_)) == SelectSeq(seq, P)

(***************************************************************************)
(* Strings as character sequences                                          *)
(***************************************************************************)
LowerChars == {"a","b","c","d","e","f","g","h","i","j","k","l","m",
               "n","o","p","q","r","s","t","u","v","w","x","y","z"}
UpperChars == {"A","B","C","D","E","F","G","H","I","J","K","L","M",
               "N","O","P","Q","R","S","T","U","V","W","X","Y","Z"}
DigitChars == {"0","1","2","3","4","5","6","7","8","9"}
HexChars == DigitChars \cup {"a","b","c","d","e","f","A","B","C","D","E","F"}

\* regex classes \s, \d, \w
IsSpace(c) == c \in {" ", "\t", "\n", "\r"}
IsDigit(c) == c \in DigitChars
IsWord(c) == c \in LowerChars \cup UpperChars \cup DigitChars \cup {"_"}

\* String.prototype.startsWith
StartsWith(s, p) == Len(s) >= Len(p) /\ SubSeq(s, 1, Len(p)) = p

\* String.prototype.includes
Includes(s, p) ==
    \E i \in 1..(Len(s) - Len(p) + 1) : SubSeq(s, i, i + Len(p) - 1) = p

\* String.prototype.trim
RECURSIVE TrimLeft(_)
TrimLeft(s) == IF s # <<>> /\ IsSpace(Head(s)) THEN TrimLeft(Tail(s)) ELSE s
RECURSIVE TrimRight(_)
TrimRight(s) ==
    IF s # <<>> /\ IsSpace(s[Len(s)]) THEN TrimRight(SubSeq(s, 1, Len(s) - 1)) ELSE s
Trim(s) == TrimRight(TrimLeft(s))

\* String.prototype.split(sep) for a one-character separator: always at least one piece
RECURSIVE SplitOn(_, _, _)
SplitOn(s, sep, cur) ==
    IF \A i \in 1..Len(s) : s[i] # sep THEN <<cur \o s>>
    ELSE LET first == CHOOSE i \in 1..Len(s) :
                          s[i] = sep /\ \A j \in 1..(i - 1) : s[j] # sep
         IN  <<cur \o SubSeq(s, 1, first - 1)>>
             \o SplitOn(SubSeq(s, first + 1, Len(s)), sep, <<>>)

SplitLines(s) == SplitOn(s, "\n", <<>>)

\* String.prototype.toLowerCase
LowerSeq == <<"a","b","c","d","e","f","g","h","i","j","k","l","m",
              "n","o","p","q","r","s","t","u","v","w","x","y","z">>
UpperSeq == <<"A","B","C","D","E","F","G","H","I","J","K","L","M",
              "N","O","P","Q","R","S","T","U","V","W","X","Y","Z">>
ToLowerChar(c) ==
    IF c \in UpperChars THEN LowerSeq[CHOOSE i \in 1..26 : UpperSeq[i] = c] ELSE c
ToLowerCase(s) == [i \in 1..Len(s) |-> ToLowerChar(s[i])]

\* Array.prototype.join(sep)
RECURSIVE Join(_, _)
Join(pieces, sep) ==
    IF pieces = <<>> THEN <<>>
    ELSE IF Len(pieces) = 1 THEN pieces[1]
    ELSE pieces[1] \o sep \o Join(Tail(pieces), sep)

JoinLines(lines) == Join(lines, <<"\n">>)

\* Array.prototype.reverse
Reverse(seq) == [i \in 1..Len(seq) |-> seq[Len(seq) + 1 - i]]

\* Array.prototype.flat
RECURSIVE Flat(_)
Flat(seqs) == IF seqs = <<>> THEN <<>> ELSE Head(seqs) \o Flat(Tail(seqs))

\* String.prototype.padStart(n, '0')
RECURSIVE PadStartZero(_, _)
PadStartZero(s, n) == IF Len(s) >= n THEN s ELSE PadStartZero(<<"0">> \o s, n)

\* first index >= i of s whose character is not in the class (Len(s)+1 if none):
\* the end of a greedy run X+ starting at i, exact here because every run of the
\* pattern is followed by a class disjoint from it
RunEnd(s, i, InClass(_)) ==
    IF i > Len(s) THEN i
    ELSE CHOOSE j \in i..(Len(s) + 1) :
            /\ \A k \in i..(j - 1) : InClass(s[k])
            /\ (j = Len(s) + 1 \/ ~InClass(s[j]))

NotSpace(c) == ~IsSpace(c)

\* line.match(/^\S+\s+\d+\s+IN\s+\w+\s+/)
MatchesZoneRecord(line) ==
    LET a == RunEnd(line, 1, NotSpace)      \* ^\S+
        b == RunEnd(line, a, IsSpace)       \* \s+
        c == RunEnd(line, b, IsDigit)       \* \d+
        d == RunEnd(line, c, IsSpace)       \* \s+
        e == d + 2                          \* IN
        f == RunEnd(line, e, IsSpace)       \* \s+
        g == RunEnd(line, f, IsWord)        \* \w+
        h == RunEnd(line, g, IsSpace)       \* \s+
    IN  /\ a > 1 /\ b > a /\ c > b /\ d > c
        /\ d + 1 <= Len(line) /\ line[d] = "I" /\ line[d + 1] = "N"
        /\ f > e /\ g > f /\ h > g

\* trimmed.match(/^(DiG|global|Query|Transfer|connection|WARNING)/)
MetaPrefixes ==
    { <<"D","i","G">>,
      <<"g","l","o","b","a","l">>,
      <<"Q","u","e","r","y">>,
      <<"T","r","a","n","s","f","e","r">>,
      <<"c","o","n","n","e","c","t","i","o","n">>,
      <<"W","A","R","N","I","N","G">> }

MatchesMetaPrefix(trimmed) == \E p \in MetaPrefixes : StartsWith(trimmed, p)

(***************************************************************************)
(* testAXFR: classification of the dig output                              *)
(***************************************************************************)
MAX_RECORDS_DISPLAY == 50
AXFR_TIMEOUT_MS == 10000

StrTransferFailed == <<"T","r","a","n","s","f","e","r"," ","f","a","i","l","e","d">>
StrFailed == <<"f","a","i","l","e","d">>
StrConnTimedOut == <<"c","o","n","n","e","c","t","i","o","n"," ","t","i","m","e","d"," ","o","u","t">>
StrNoServers == <<"n","o"," ","s","e","r","v","e","r","s"," ","c","o","u","l","d"," ","b","e"," ",
                  "r","e","a","c","h","e","d">>

\* output.includes('Transfer failed') || output.includes('failed')
HasTransferFailedMarker(output) ==
    Includes(output, StrTransferFailed) \/ Includes(output, StrFailed)

\* output.includes('connection timed out') || output.includes('no servers could be reached')
HasConnTimeoutMarker(output) ==
    Includes(output, StrConnTimedOut) \/ Includes(output, StrNoServers)

\* the first filter of testAXFR: non-empty lines that are no comment, banner or metadata
KeepOutputLine(line) ==
    LET trimmed == Trim(line)
    IN  /\ trimmed # <<>>
        /\ ~StartsWith(trimmed, <<";">>)
        /\ ~StartsWith(trimmed, <<"<","<",">",">">>)
        /\ ~MatchesMetaPrefix(trimmed)

OutputLines(output) == Filter(SplitLines(output), KeepOutputLine)

\* mutant of ZoneRecords: every remaining output line counts as a zone record
ZoneRecordsUnfiltered(lines) == lines

\* the second filter of testAXFR
ZoneRecords(lines) == Filter(lines, MatchesZoneRecord)

\* A NameserverResult. Absent optional members: error is Undefined; recordCount is 0
\* and records is <<>> (the code sets both only together, with at least one record)
NsResult(ns, ip, vulnerable, recordCount, records, err, responseTime) ==
    [nameserver |-> ns, ip |-> ip, vulnerable |-> vulnerable, recordCount |-> recordCount,
     records |-> records, error |-> err, responseTime |-> responseTime]

\* mutant of TestAXFROutput: the records are reported without the slice
TestAXFROutputUnsliced(ns, ip, stdout, stderr, responseTime) ==
    LET output == stdout \o stderr
        lines == OutputLines(output)
        zoneRecords == ZoneRecords(lines)
    IN  IF HasTransferFailedMarker(output)
        THEN NsResult(ns, ip, FALSE, 0, <<>>, "Transfer refused (secure)", responseTime)
        ELSE IF HasConnTimeoutMarker(output)
        THEN NsResult(ns, ip, FALSE, 0, <<>>, "Connection timeout", responseTime)
        ELSE IF Len(lines) > 0 /\ Len(zoneRecords) > 0
        THEN NsResult(ns, ip, TRUE, Len(zoneRecords), zoneRecords, Undefined, responseTime)
        ELSE NsResult(ns, ip, FALSE, 0, <<>>, "Transfer refused (secure)", responseTime)

\* testAXFR after the race was won by the child process: lines 77-138
TestAXFROutput(ns, ip, stdout, stderr, responseTime) ==
    LET output == stdout \o stderr
        lines == OutputLines(output)
        zoneRecords == ZoneRecords(lines)
    IN  IF HasTransferFailedMarker(output)
        THEN NsResult(ns, ip, FALSE, 0, <<>>, "Transfer refused (secure)", responseTime)
        ELSE IF HasConnTimeoutMarker(output)
        THEN NsResult(ns, ip, FALSE, 0, <<>>, "Connection timeout", responseTime)
        ELSE IF Len(lines) > 0 /\ Len(zoneRecords) > 0
        THEN NsResult(ns, ip, TRUE, Len(zoneRecords),
                      SubSeq(zoneRecords, 1, Min(MAX_RECORDS_DISPLAY, Len(zoneRecords))),
                      Undefined, responseTime)
        ELSE NsResult(ns, ip, FALSE, 0, <<>>, "Transfer refused (secure)", responseTime)

(***************************************************************************)
(* dig outputs the model feeds to testAXFR                                 *)
(***************************************************************************)
LineRecord == <<"a", ".", " ", "3", " ", "I", "N", " ", "A", " ", "1">>
LineRecordNs == <<"b", ".", " ", "3", " ", "I", "N", " ", "N", "S", " ", "a", ".">>
LineGlobalOwner == <<"g", "l", "o", "b", "a", "l", ".", " ", "3", " ", "I", "N", " ", "A", " ", "1">>
LineComment == <<";", " ", "x">>
LineQueryMeta == <<"Q", "u", "e", "r", "y", " ", "3">>
LineNoRdata == <<"a", ".", " ", "3", " ", "I", "N", " ", "A">>
LineNoTtl == <<"a", ".", " ", "I", "N", " ", "A", " ", "1">>
LineFailed == <<";", " ", "T", "r", "a", "n", "s", "f", "e", "r", " ", "f", "a", "i", "l", "e", "d", ".">>
LineTimedOut == <<";", ";", " ", "c", "o", "n", "n", "e", "c", "t", "i", "o", "n", " ",
                  "t", "i", "m", "e", "d", " ", "o", "u", "t">>
LineEmpty == <<>>

LineKinds == {LineRecord, LineRecordNs, LineGlobalOwner, LineComment, LineQueryMeta,
              LineNoRdata, LineNoTtl, LineFailed, LineTimedOut, LineEmpty}

MaxLines == 2

Texts == UNION {[1..n -> LineKinds] : n \in 0..MaxLines}

\* zone dumps of about MAX_RECORDS_DISPLAY records: a comment, then n records of
\* two kinds with one line that is no record among them
LongText(n) ==
    [k \in 1..(n + 2) |->
        IF k = 1 THEN LineComment
        ELSE IF k = 4 THEN LineNoTtl
        ELSE IF k % 3 = 0 THEN LineRecordNs ELSE LineRecord]

LongTexts == {LongText(n) : n \in (MAX_RECORDS_DISPLAY - 1)..(MAX_RECORDS_DISPLAY + 2)}


(***************************************************************************)
(* JavaScript values of a request body                                     *)
(***************************************************************************)
JsUndefined == [t |-> "undefined", v |-> <<>>]
JsString(s) == [t |-> "string", v |-> s]

\* !x for a request member
JsFalsy(x) == x.t = "undefined" \/ (x.t = "string" /\ x.v = <<>>)

(***************************************************************************)
(* validateDomain (AXFR prober and resolver comparator)                    *)
(***************************************************************************)
MAX_DOMAIN_LENGTH == 253

IsLabelEdgeChar(c) == IsWord(c)                 \* [a-zA-Z0-9_]
IsLabelChar(c) == IsWord(c) \/ c = "-"          \* [a-zA-Z0-9_-]
IsLetter(c) == c \in LowerChars \cup UpperChars \* [a-zA-Z]

\* [a-zA-Z0-9_]([a-zA-Z0-9_-]{0,61}[a-zA-Z0-9_])?
IsDomainLabel(l) ==
    /\ Len(l) >= 1 /\ Len(l) <= 63
    /\ IsLabelEdgeChar(l[1]) /\ IsLabelEdgeChar(l[Len(l)])
    /\ \A i \in 1..Len(l) : IsLabelChar(l[i])

\* [a-zA-Z]{2,}
IsTld(l) == Len(l) >= 2 /\ \A i \in 1..Len(l) : IsLetter(l[i])

\* DOMAIN_PATTERN.test: one or more labels each followed by a dot, then the TLD
\* (no label holds a dot, so the pieces between the dots are the labels)
MatchesDomainPattern(domain) ==
    LET pieces == SplitOn(domain, ".", <<>>)
        n == Len(pieces)
    IN  /\ n >= 2
        /\ \A i \in 1..(n - 1) : IsDomainLabel(pieces[i])
        /\ IsTld(pieces[n])

ValidateDomain(domain) ==
    IF domain = <<>> \/ Len(domain) > MAX_DOMAIN_LENGTH THEN FALSE
    ELSE MatchesDomainPattern(domain)

(***************************************************************************)
(* AXFR prober: POST /api/internal/diagnostics/axfr                        *)
(***************************************************************************)
MAX_NAMESERVERS == 10

\* request bodies: json is FALSE when request.json() throws
AxfrDomains ==
    { JsUndefined,
      JsString(<<>>),
      JsString(<<" ", " ">>),
      JsString(<<"a", ".", "i", "o">>),
      JsString(<<" ", "A", ".", "I", "o", " ">>),
      JsString(<<"a", " ", "b", ".", "i", "o">>),
      JsString(<<"-", "a", ".", "i", "o">>),
      JsString(<<"a", ".", "i", "0">>) }

AxfrNameservers ==
    { JsUndefined, JsString(<<" ">>), JsString(<<" ", "n", "9", " ">>) }

AxfrBodies ==
    {[json |-> FALSE, domain |-> JsUndefined, nameserver |-> JsUndefined]}
    \cup [json : {TRUE}, domain : AxfrDomains, nameserver : AxfrNameservers]

\* what dns.resolveNs can settle with
MaxNs == 2
NsNames == << <<"n", "1">>, <<"n", "2">>, <<"n", "3">>, <<"n", "4">> >>
NsAnswers == {SubSeq(NsNames, 1, n) : n \in 0..Min(MaxNs, Len(NsNames))}
NsOutcomes ==
    {[ok |-> TRUE, names |-> a, code |-> Undefined] : a \in NsAnswers}
    \cup {[ok |-> FALSE, names |-> <<>>, code |-> c] : c \in {"ENOTFOUND", "ESERVFAIL"}}

\* an Error: its message as lines (each at most 100 characters), and its code
Err(lines, code) == [lines |-> lines, code |-> code]
ErrMessage(e) == e.lines

\* err.message?.includes(...) for the messages the environment produces
LineIncludesTimeout(line) == line \in {"AXFR query timeout", "DNS query timeout"}
LineIncludesNotFound(line) == line \in {"Command failed: dig: command not found"}
ErrIncludesTimeout(e) == \E i \in 1..Len(e.lines) : LineIncludesTimeout(e.lines[i])
ErrIncludesNotFound(e) == \E i \in 1..Len(e.lines) : LineIncludesNotFound(e.lines[i])

\* err.message is truthy: some line is non-empty
ErrMessageTruthy(e) == \E i \in 1..Len(e.lines) : e.lines[i] # ""

\* the rejection of the timer in testAXFR
AxfrTimerError == Err(<<"AXFR query timeout">>, Undefined)

\* rejections of execAsync: dig exits non-zero (its output is on stdout, 2>&1),
\* the shell cannot be spawned, or the output exceeds maxBuffer
ExecErrors ==
    { Err(<<"Command failed: dig @ip domain AXFR +time=5 +retry=1 +noidnout 2>&1", "">>, "9"),
      Err(<<"spawn /bin/sh ENOENT">>, "ENOENT"),
      Err(<<"stdout maxBuffer length exceeded">>, "ERR_CHILD_PROCESS_STDIO_MAXBUFFER") }

\* mutant of TestAXFRCatch: the failure is swallowed and no error is reported
TestAXFRCatchSilent(ns, ip, err, responseTime) ==
    NsResult(ns, ip, FALSE, 0, <<>>, Undefined, responseTime)

\* testAXFR, catch block: lines 139-161
TestAXFRCatch(ns, ip, err, responseTime) ==
    LET errorMsg ==
            IF ErrIncludesTimeout(err) THEN "Query timeout"
            ELSE IF ErrIncludesNotFound(err) THEN "Nameserver not found"
            ELSE IF err.code = "ENOENT" THEN "dig command not available"
            ELSE IF ErrMessageTruthy(err) THEN err.lines[1]
            ELSE "Unknown error"
    IN  NsResult(ns, ip, FALSE, 0, <<>>, errorMsg, responseTime)

\* mutant of ResolveFailedResult: the failure to resolve is reported without error
ResolveFailedResultSilent(ns, err) == NsResult(ns, "N/A", FALSE, 0, <<>>, Undefined, 0)

\* the catch of the Promise.all callback in POST: lines 218-226
ResolveFailedResult(ns, err) ==
    NsResult(ns, "N/A", FALSE, 0, <<>>,
             IF ErrMessageTruthy(err) THEN err.lines[1] ELSE "Failed to resolve nameserver", 0)

\* resolveNameserverIP, inner catch: line 55
ResolveNameserverError == Err(<<"Failed to resolve nameserver">>, Undefined)

\* dig outputs of the request model: refused, a transfer, a transfer whose owner
\* names start like dig metadata, no answer
SampleOutputs ==
    { JoinLines(<<LineFailed>>),
      JoinLines(<<LineComment, LineRecord, LineRecordNs>>),
      JoinLines(<<LineGlobalOwner>>),
      JoinLines(<<LineTimedOut>>) }

\* elapsed milliseconds at which the child process can exit before the timer
ExecElapsed == {35, 9990}

Probe(ns) ==
    [ns |-> ns, stage |-> "resolve4", ip |-> "N/A", exec |-> "none", timer |-> "none",
     caught |-> <<>>, result |-> <<>>]

Settled(p) == p.result # <<>>

\* the summary computed from the results: lines 230-245
AxfrIsVulnerable(r) == r.vulnerable
\* mutant of AxfrIsSecure: every non-vulnerable result counts as secure
AxfrIsSecureIgnoringError(r) == ~r.vulnerable

AxfrIsSecure(r) == ~r.vulnerable /\ ~Truthy(r.error)
AxfrIsError(r) == Truthy(r.error)

AxfrSummary(results) ==
    [total |-> Len(results),
     vulnerable |-> CountIf(results, AxfrIsVulnerable),
     secure |-> CountIf(results, AxfrIsSecure),
     errors |-> CountIf(results, AxfrIsError)]

NoSummary == [total |-> 0, vulnerable |-> 0, secure |-> 0, errors |-> 0]

AxfrError(status, message) ==
    [status |-> status, message |-> message, domain |-> <<>>, nameservers |-> <<>>,
     summary |-> NoSummary]

AxfrOk(domain, results) ==
    [status |-> 200, message |-> "", domain |-> domain, nameservers |-> results,
     summary |-> AxfrSummary(results)]

\* mutant of AxfrStartProbes: every nameserver of the NS set is probed
AxfrStartProbesUncapped(names) == [i \in 1..Len(names) |-> Probe(names[i])]

\* nameserversToTest after the cap, each with its callback started: lines 203-217
AxfrStartProbes(names) ==
    LET capped == IF Len(names) > MAX_NAMESERVERS THEN SubSeq(names, 1, MAX_NAMESERVERS)
                  ELSE names
    IN  [i \in 1..Len(capped) |-> Probe(capped[i])]

\* POST up to its first await of network I/O: lines 165-210
AxfrPost ==
    /\ Quiet
    /\ \E body \in AxfrBodies :
        LET domain == body.domain
            nameserver == body.nameserver
            trimmedDomain == ToLowerCase(Trim(domain.v))
        IN  /\ axReq' = IF body.json /\ domain.t = "string" /\ ValidateDomain(trimmedDomain)
                         THEN <<trimmedDomain>> ELSE <<>>
            /\ IF ~body.json
               THEN /\ axPc' = "rejected"
                    /\ axResp' = <<AxfrError(400, "Invalid JSON in request body")>>
                    /\ UNCHANGED <<axProbes, axIO>>
               ELSE IF JsFalsy(domain) \/ domain.t # "string" \/ Trim(domain.v) = <<>>
               THEN /\ axPc' = "rejected"
                    /\ axResp' = <<AxfrError(400, "Domain is required")>>
                    /\ UNCHANGED <<axProbes, axIO>>
               ELSE IF ~ValidateDomain(trimmedDomain)
               THEN /\ axPc' = "rejected"
                    /\ axResp' = <<AxfrError(400, "Invalid domain name format")>>
                    /\ UNCHANGED <<axProbes, axIO>>
               ELSE IF ~JsFalsy(nameserver) /\ nameserver.t = "string" /\ Trim(nameserver.v) # <<>>
               THEN /\ axPc' = "probing"
                    /\ axProbes' = AxfrStartProbes(<<Trim(nameserver.v)>>)
                    /\ axIO' = {"resolve4"}
                    /\ UNCHANGED axResp
               ELSE /\ axPc' = "resolveNs"
                    /\ axIO' = {"resolveNs"}
                    /\ UNCHANGED <<axProbes, axResp>>
    /\ UNCHANGED <<txVars, pgVars, bmVars, fnVars, rbVars, dnVars, pfVars, tlVars>>

\* dns.resolveNs settles: lines 193-217
AxfrNsResolved ==
    /\ axPc = "resolveNs"
    /\ \E o \in NsOutcomes :
        IF ~o.ok
        THEN /\ axPc' = "rejected"
             /\ axResp' = <<IF o.code = "ENOTFOUND"
                            THEN AxfrError(400, "Domain not found or has no nameservers")
                            ELSE AxfrError(500, "Failed to resolve nameservers")>>
             /\ UNCHANGED <<axProbes, axIO>>
        ELSE IF Len(o.names) = 0
        THEN /\ axPc' = "rejected"
             /\ axResp' = <<AxfrError(400, "No nameservers found for domain")>>
             /\ UNCHANGED <<axProbes, axIO>>
        ELSE /\ axPc' = "probing"
             /\ axProbes' = AxfrStartProbes(o.names)
             /\ axIO' = axIO \cup {"resolve4"}
             /\ UNCHANGED axResp
    /\ UNCHANGED <<axReq, txVars, pgVars, bmVars, fnVars, rbVars, dnVars, pfVars, tlVars>>

\* resolveNameserverIP: dns.resolve4 settles (lines 47-51); on success testAXFR
\* starts the child process and its timer (lines 61-72)
AxfrResolve4Done(i) ==
    /\ axPc = "probing"
    /\ axProbes[i].stage = "resolve4"
    /\ \E ok \in BOOLEAN :
        IF ok
        THEN /\ axProbes' = [axProbes EXCEPT ![i].stage = "dig", ![i].ip = "192.0.2.53",
                                             ![i].exec = "running", ![i].timer = "armed"]
             /\ axIO' = axIO \cup {"exec"}
        ELSE /\ axProbes' = [axProbes EXCEPT ![i].stage = "resolve6"]
             /\ axIO' = axIO \cup {"resolve6"}
    /\ UNCHANGED <<axPc, axReq, axResp, txVars, pgVars, bmVars, fnVars, rbVars, dnVars, pfVars, tlVars>>

\* resolveNameserverIP: dns.resolve6 settles (lines 51-57)
AxfrResolve6Done(i) ==
    /\ axPc = "probing"
    /\ axProbes[i].stage = "resolve6"
    /\ \E ok \in BOOLEAN :
        IF ok
        THEN /\ axProbes' = [axProbes EXCEPT ![i].stage = "dig", ![i].ip = "2001:db8::53",
                                             ![i].exec = "running", ![i].timer = "armed"]
             /\ axIO' = axIO \cup {"exec"}
        ELSE /\ axProbes' = [axProbes EXCEPT
                    ![i].stage = "settled",
                    ![i].caught = <<ResolveNameserverError>>,
                    ![i].result = <<ResolveFailedResult(axProbes[i].ns, ResolveNameserverError)>>]
             /\ UNCHANGED axIO
    /\ UNCHANGED <<axPc, axReq, axResp, txVars, pgVars, bmVars, fnVars, rbVars, dnVars, pfVars, tlVars>>

\* the child process exits: it wins the race if the timer has not fired, and is
\* discarded by Promise.race otherwise (lines 67-72)
AxfrExecDone(i) ==
    /\ axPc \in {"probing", "responded"}
    /\ axProbes[i].exec = "running"
    /\ \/ \E out \in SampleOutputs, ms \in ExecElapsed :
            axProbes' = [axProbes EXCEPT
                ![i].exec = "exited",
                ![i].stage = "settled",
                ![i].result =
                    IF axProbes[i].timer = "fired" THEN @
                    ELSE <<TestAXFROutput(axProbes[i].ns, axProbes[i].ip, out, <<>>, ms)>>]
       \/ \E err \in ExecErrors, ms \in ExecElapsed :
            axProbes' = [axProbes EXCEPT
                ![i].exec = "exited",
                ![i].stage = "settled",
                ![i].caught = IF axProbes[i].timer = "fired" THEN @ ELSE <<err>>,
                ![i].result =
                    IF axProbes[i].timer = "fired" THEN @
                    ELSE <<TestAXFRCatch(axProbes[i].ns, axProbes[i].ip, err, ms)>>]
    /\ UNCHANGED <<axPc, axReq, axResp, axIO, txVars, pgVars, bmVars, fnVars, rbVars, dnVars, pfVars, tlVars>>

\* the timer of testAXFR fires: it wins the race if the child process has not
\* exited, and its rejection is ignored otherwise (it is never cleared)
AxfrTimerFire(i) ==
    /\ axPc \in {"probing", "responded"}
    /\ axProbes[i].timer = "armed"
    /\ axProbes' = [axProbes EXCEPT
            ![i].timer = "fired",
            ![i].stage = "settled",
            ![i].caught = IF axProbes[i].exec = "exited" THEN @ ELSE <<AxfrTimerError>>,
            ![i].result =
                IF axProbes[i].exec = "exited" THEN @
                ELSE <<TestAXFRCatch(axProbes[i].ns, axProbes[i].ip, AxfrTimerError,
                                     AXFR_TIMEOUT_MS)>>]
    /\ UNCHANGED <<axPc, axReq, axResp, axIO, txVars, pgVars, bmVars, fnVars, rbVars, dnVars, pfVars, tlVars>>

\* Promise.all resolves; POST builds the summary and responds: lines 230-247
AxfrRespond ==
    /\ axPc = "probing"
    /\ \A i \in 1..Len(axProbes) : Settled(axProbes[i])
    /\ axPc' = "responded"
    /\ axResp' = <<AxfrOk(axReq[1],
                          [i \in 1..Len(axProbes) |-> axProbes[i].result[1]])>>
    /\ UNCHANGED <<axReq, axProbes, axIO, txVars, pgVars, bmVars, fnVars, rbVars, dnVars, pfVars, tlVars>>

NextAXFR ==
    \/ AxfrPost
    \/ AxfrNsResolved
    \/ \E i \in 1..Len(axProbes) : AxfrResolve4Done(i)
    \/ \E i \in 1..Len(axProbes) : AxfrResolve6Done(i)
    \/ \E i \in 1..Len(axProbes) : AxfrExecDone(i)
    \/ \E i \in 1..Len(axProbes) : AxfrTimerFire(i)
    \/ AxfrRespond

(***************************************************************************)
(* Blacklist checker: POST /api/internal/diagnostics/dnsbl                 *)
(***************************************************************************)
\* An optional string member: <<>> when absent, <<text>> when present
Absent == <<>>
Present(text) == <<text>>
\* JavaScript truthiness of an optional string
OptTruthy(o) == o # <<>> /\ o[1] # <<>>

\* RBLS, abridged to its first three zones: one domain blocklist, two IP blocklists
RBLS ==
    << [zone |-> <<"d","b","l",".","s","p","a","m","h","a","u","s",".","o","r","g">>,
        name |-> "Spamhaus DBL"],
       [zone |-> <<"d","n","s","b","l",".","s","o","r","b","s",".","n","e","t">>,
        name |-> "SORBS"],
       [zone |-> <<"b","l",".","s","p","a","m","c","o","p",".","n","e","t">>,
        name |-> "SpamCop"] >>

\* /^(\d{1,3}\.){3}\d{1,3}$/
IsIPv4(str) ==
    LET parts == SplitOn(str, ".", <<>>)
    IN  /\ Len(parts) = 4
        /\ \A i \in 1..4 :
            /\ Len(parts[i]) >= 1 /\ Len(parts[i]) <= 3
            /\ \A k \in 1..Len(parts[i]) : IsDigit(parts[i][k])

\* /^([0-9a-fA-F]{0,4}:){2,7}[0-9a-fA-F]{0,4}$/
IsIPv6(str) ==
    LET parts == SplitOn(str, ":", <<>>)
    IN  /\ Len(parts) - 1 >= 2 /\ Len(parts) - 1 <= 7
        /\ \A i \in 1..Len(parts) :
            /\ Len(parts[i]) <= 4
            /\ \A k \in 1..Len(parts[i]) : parts[i][k] \in HexChars

\* mutant of ReverseIPv4: the first octet is moved behind the others
ReverseIPv4Rotated(ip) ==
    LET parts == SplitOn(ip, ".", <<>>)
    IN  Join(Tail(parts) \o <<Head(parts)>>, <<".">>)

\* ip.split('.').reverse().join('.')
ReverseIPv4(ip) == Join(Reverse(SplitOn(ip, ".", <<>>)), <<".">>)

\* reverseIPv6: every empty part pushes zerosNeeded + 1 groups of zeros (j runs from
\* 0 to zerosNeeded inclusive); the first 8 groups are kept
IsNonEmpty(part) == part # <<>>
RECURSIVE Ipv6FullParts(_, _)
Ipv6FullParts(parts, zerosNeeded) ==
    IF parts = <<>> THEN <<>>
    ELSE (IF Head(parts) = <<>>
          THEN [j \in 1..(zerosNeeded + 1) |-> <<"0","0","0","0">>]
          ELSE <<PadStartZero(Head(parts), 4)>>)
         \o Ipv6FullParts(Tail(parts), zerosNeeded)

ReverseIPv6(ip) ==
    LET parts == SplitOn(ip, ":", <<>>)
        zerosNeeded == 8 - Len(Filter(parts, IsNonEmpty))
        fullParts == Ipv6FullParts(parts, zerosNeeded)
        kept == SubSeq(fullParts, 1, Min(8, Len(fullParts)))
        nibbles == Flat(kept)
    IN  Join([i \in 1..Len(nibbles) |-> <<Reverse(nibbles)[i]>>], <<".">>)

\* rbl.zone.includes('dbl')
IsDomainZone(rbl) == Includes(rbl.zone, <<"d","b","l">>)
IsIpZone(rbl) == ~IsDomainZone(rbl)

RblIndexes(Test(_)) ==
    LET idx == [i \in 1..Len(RBLS) |-> i]
        Keep(i) == Test(RBLS[i])
    IN  SelectSeq(idx, Keep)

\* the phrases of isErrorResponse, in the order of the code
StrOpenResolver == <<"o","p","e","n"," ","r","e","s","o","l","v","e","r">>
StrQueryRefused == <<"q","u","e","r","y"," ","r","e","f","u","s","e","d">>
StrNotSupported == <<"n","o","t"," ","s","u","p","p","o","r","t","e","d">>
StrCheckSpamhaus == <<"c","h","e","c","k",".","s","p","a","m","h","a","u","s",".","o","r","g">>
StrBlockedSee == <<"b","l","o","c","k","e","d"," ","-"," ","s","e","e">>
StrAccessDenied == <<"a","c","c","e","s","s"," ","d","e","n","i","e","d">>
StrPleaseUse == <<"p","l","e","a","s","e"," ","u","s","e">>

RefusalPhrases ==
    {StrOpenResolver, StrQueryRefused, StrNotSupported, StrCheckSpamhaus, StrBlockedSee,
     StrAccessDenied, StrPleaseUse}

\* mutant of ReasonSaysRefused: the phrases are matched without toLowerCase
ReasonSaysRefusedCaseSensitive(reason) == \E p \in RefusalPhrases : Includes(reason, p)

\* reason.toLowerCase().includes(phrase), for any of the phrases
ReasonSaysRefused(reason) == \E p \in RefusalPhrases : Includes(ToLowerCase(reason), p)

\* isErrorResponse: lines 137-148
IsErrorResponse(response, reason) ==
    \/ StartsWith(response, <<"1","2","7",".","2","5","5",".">>)
    \/ (OptTruthy(reason) /\ ReasonSaysRefused(reason[1]))

StrBlockedOrUnsupported ==
    <<"R","B","L"," ","q","u","e","r","y"," ","b","l","o","c","k","e","d"," ","o","r"," ",
      "u","n","s","u","p","p","o","r","t","e","d">>
StrInvalidIpFormat == <<"I","n","v","a","l","i","d"," ","I","P"," ","f","o","r","m","a","t">>

\* An RBLResult (url and description, copied from the roster, are left out).
\* rbl is the zone's name and, for a per-IP result of a domain target, the IP of
\* the label `${r.rbl} (${ip})`
RblResult(name, listed, response, reason, responseTime, err) ==
    [rbl |-> [name |-> name, ip |-> <<>>], listed |-> listed, response |-> response,
     reason |-> reason, responseTime |-> responseTime, error |-> err]

\* A DNS failure: err.code and err.message
DnsErr(code, message) == [code |-> code, message |-> message]

\* checkRBL, catch block: lines 168-187
CheckRBLCatch(name, err, responseTime) ==
    IF err.code = "ENOTFOUND" \/ err.code = "ENODATA"
    THEN RblResult(name, FALSE, Absent, Absent, responseTime, Absent)
    ELSE RblResult(name, FALSE, Absent, Absent, responseTime, Present(err.message))

\* checkRBL after both lookups: lines 135-167
CheckRBLClassify(name, addresses, reason, responseTime) ==
    LET response == addresses[1]
    IN  IF IsErrorResponse(response, reason)
        THEN RblResult(name, FALSE, Absent, Absent, responseTime,
                       Present(IF OptTruthy(reason) THEN reason[1] ELSE StrBlockedOrUnsupported))
        ELSE RblResult(name, TRUE, Present(response), reason, responseTime, Absent)

\* One call of checkRBL. stage: "a" while dns.resolve4(query) is pending, "txt" while
\* dns.resolveTxt(query) is pending, "done" once it returned. timer: checkRBL arms
\* none. addrs and ms are its locals addresses and responseTime.
\* checkRBL up to its first await: lines 107-123
CheckRBLStart(ip, i, isDomain) ==
    LET base == [rbl |-> i, stage |-> "a", timer |-> "none", addrs |-> <<>>, ms |-> 0,
                 query |-> <<>>, caught |-> <<>>, result |-> <<>>]
        zone == RBLS[i].zone
    IN  IF isDomain THEN [base EXCEPT !.query = ip \o <<".">> \o zone]
        ELSE IF IsIPv4(ip) THEN [base EXCEPT !.query = ReverseIPv4(ip) \o <<".">> \o zone]
        ELSE IF IsIPv6(ip) THEN [base EXCEPT !.query = ReverseIPv6(ip) \o <<".">> \o zone]
        ELSE [base EXCEPT !.stage = "done",
                          !.caught = <<DnsErr(Undefined, StrInvalidIpFormat)>>,
                          !.result = <<CheckRBLCatch(RBLS[i].name,
                                         DnsErr(Undefined, StrInvalidIpFormat), 0)>>]

\* dns.resolve4(query) settles: lines 123-129 and the catch
CheckRBLAfterA(p, o) ==
    IF o.ok
    THEN [p EXCEPT !.stage = "txt", !.addrs = o.addrs, !.ms = o.ms]
    ELSE [p EXCEPT !.stage = "done", !.caught = <<o.err>>,
                   !.result = <<CheckRBLCatch(RBLS[p.rbl].name, o.err, o.ms)>>]

\* dns.resolveTxt(query) settles: lines 128-167
CheckRBLAfterTxt(p, o) ==
    LET reason == IF o.ok THEN Present(Join(Flat(o.records), <<" ">>)) ELSE Absent
    IN  [p EXCEPT !.stage = "done", !.addrs = <<>>, !.ms = 0,
                  !.result = <<CheckRBLClassify(RBLS[p.rbl].name, p.addrs, reason, p.ms)>>]

\* what dns.resolve4(query) of checkRBL can settle with: listings, a zone's error
\* code, and failures; ms is the time the lookup took (checkRBL arms no timer, so
\* the resolver library's own timeout is the only limit)
Addr127_0_0_2 == <<"1","2","7",".","0",".","0",".","2">>
Addr127_0_0_4 == <<"1","2","7",".","0",".","0",".","4">>
Addr127_255_255_254 == <<"1","2","7",".","2","5","5",".","2","5","5",".","2","5","4">>

AAnswer(addrs, ms) == [ok |-> TRUE, addrs |-> addrs, ms |-> ms, err |-> DnsErr(Undefined, <<>>)]
AFailure(code, message, ms) == [ok |-> FALSE, addrs |-> <<>>, ms |-> ms, err |-> DnsErr(code, message)]

MsgTimeout == <<"q","u","e","r","y","A"," ","E","T","I","M","E","O","U","T">>
MsgServFail == <<"q","u","e","r","y","A"," ","E","S","E","R","V","F","A","I","L">>
MsgNotFound == <<"q","u","e","r","y","A"," ","E","N","O","T","F","O","U","N","D">>
MsgNoData == <<"q","u","e","r","y","A"," ","E","N","O","D","A","T","A">>

AOutcomes ==
    {AAnswer(a, ms) : a \in {<<Addr127_0_0_2>>, <<Addr127_0_0_2, Addr127_0_0_4>>,
                             <<Addr127_255_255_254>>,
                             <<Addr127_0_0_2, Addr127_255_255_254>>},
                      ms \in {30, 2500}}
    \cup { AFailure("ENOTFOUND", MsgNotFound, 30),
           AFailure("ENODATA", MsgNoData, 30),
           AFailure("ESERVFAIL", MsgServFail, 30),
           AFailure("ETIMEOUT", MsgTimeout, 5000),
           AFailure(Undefined, <<>>, 30) }

AOutcomesLite ==
    { AAnswer(<<Addr127_0_0_2>>, 30),
      AAnswer(<<Addr127_255_255_254>>, 30),
      AFailure("ENOTFOUND", MsgNotFound, 30),
      AFailure("ETIMEOUT", MsgTimeout, 5000),
      AFailure(Undefined, <<>>, 30) }

\* what dns.resolveTxt(query) can settle with: a failure, or TXT records (each an
\* array of character strings)
TxtFailure == [ok |-> FALSE, records |-> <<>>]
TxtAnswer(records) == [ok |-> TRUE, records |-> records]

TxtAccessDenied == << <<"A","c","c","e","s","s"," ","D","e","n","i","e","d">> >>

TxtOutcomes ==
    { TxtFailure,
      TxtAnswer(<<>>),
      TxtAnswer(<< << <<"L","i","s","t","e","d">> >> >>),
      TxtAnswer(<<TxtAccessDenied>>),
      TxtAnswer(<< << <<"O","p","e","n">>, <<"R","e","s","o","l","v","e","r">> >> >>),
      TxtAnswer(<< << <<"Q","u","e","r","y"," ","R","e","f","u","s","e","d">> >> >>),
      TxtAnswer(<< << <<"P","l","e","a","s","e"," ","u","s","e"," ","x">> >> >>),
      TxtAnswer(<< << <<"N","o","t"," ","s","u","p","p","o","r","t","e","d">> >> >>),
      TxtAnswer(<< << <<"s","e","e"," ","c","h","e","c","k",".","s","p","a","m","h","a","u","s",
                       ".","o","r","g">> >> >>),
      TxtAnswer(<< << <<"B","l","o","c","k","e","d"," ","-"," ","s","e","e"," ","x">> >> >>) }

TxtOutcomesLite == {TxtFailure, TxtAnswer(<<TxtAccessDenied>>)}

Ip4 == <<"1",".","2",".","3",".","4">>
Ip6 == <<":",":","1">>
DomainAIo == <<"a",".","i","o">>

\* request bodies: json is FALSE when request.json() throws
DnsblTargets ==
    { JsUndefined,
      JsString(<<>>),
      JsString(<<" ", " ">>),
      JsString(Ip4),
      JsString(Ip6),
      JsString(<<" ","A",".","I","O"," ">>),
      JsString(<<"a",".","i","o",".">>),
      JsString(<<"a"," ","b">>) }

DnsblBodies ==
    {[json |-> FALSE, target |-> JsUndefined]} \cup [json : {TRUE}, target : DnsblTargets]

\* what dns.resolve4(target) and dns.resolve6(target) of resolveTarget can settle with
Resolve4Outcomes == {<<Ip4>>, <<>>}
Resolve6Outcomes == {<<Ip6>>, <<>>}

\* the summary: lines 280-285
DnsblIsListed(r) == r.listed
\* mutant of DnsblIsClean: every result that is not listed counts as clean
DnsblIsCleanIgnoringError(r) == ~r.listed
DnsblIsClean(r) == ~r.listed /\ ~OptTruthy(r.error)
DnsblIsError(r) == OptTruthy(r.error)

DnsblSummary(results) ==
    [totalChecked |-> Len(results),
     listedCount |-> CountIf(results, DnsblIsListed),
     cleanCount |-> CountIf(results, DnsblIsClean),
     errorCount |-> CountIf(results, DnsblIsError)]

NoDnsblSummary == [totalChecked |-> 0, listedCount |-> 0, cleanCount |-> 0, errorCount |-> 0]

DnsblError(status, message) ==
    [status |-> status, message |-> message, target |-> <<>>, targetType |-> "",
     resolvedIPs |-> <<>>, results |-> <<>>, summary |-> NoDnsblSummary]

DnsblOk(req, results) ==
    [status |-> 200, message |-> "", target |-> req.target, targetType |-> req.type,
     resolvedIPs |-> req.ips, results |-> results, summary |-> DnsblSummary(results)]

\* the checkRBL calls of one batch, all started by one map(): lines 258-259, 265-268, 275-276
DnsblStartBatch(zones, key, isDomain) ==
    [k \in 1..Len(zones) |-> CheckRBLStart(key, zones[k], isDomain)]

\* the batches of a request: the domain zones and then one batch per resolved IP
\* for a domain, one batch for a bare IP
DnsblBatches(req) == IF req.type = "domain" THEN 1 + Len(req.ips) ELSE 1

DnsblBatchProbes(req, b) ==
    IF req.type # "domain" THEN DnsblStartBatch(RblIndexes(IsIpZone), req.target, FALSE)
    ELSE IF b = 1 THEN DnsblStartBatch(RblIndexes(IsDomainZone), req.target, TRUE)
    ELSE DnsblStartBatch(RblIndexes(IsIpZone), req.ips[b - 1], FALSE)

\* the results a batch adds to allResults: line 261, 270, 277
DnsblBatchResults(req, b, probes) ==
    [k \in 1..Len(probes) |->
        IF req.type = "domain" /\ b > 1
        THEN [probes[k].result[1] EXCEPT !.rbl.ip = req.ips[b - 1]]
        ELSE probes[k].result[1]]

\* the number of checkRBL calls a request makes in all
DnsblExpected(req) ==
    IF req.type = "domain"
    THEN Len(RblIndexes(IsDomainZone)) + Len(req.ips) * Len(RblIndexes(IsIpZone))
    ELSE Len(RblIndexes(IsIpZone))

\* the lookups a batch has in flight once it is started
BatchIO(probes) == IF \E k \in 1..Len(probes) : probes[k].stage = "a" THEN {"rbl-a"} ELSE {}

\* POST up to its first await of network I/O: lines 241-259 and 275-277
DnsblPost ==
    /\ Quiet
    /\ \E body \in DnsblBodies :
        LET target == body.target
            trimmedTarget == ToLowerCase(Trim(target.v))
            type == IF IsIPv4(trimmedTarget) THEN "ipv4"
                    ELSE IF IsIPv6(trimmedTarget) THEN "ipv6" ELSE "domain"
            req == [raw |-> target.v, target |-> trimmedTarget, type |-> type, ips |-> <<>>]
        IN  IF ~body.json
            THEN /\ dnPc' = "rejected"
                 /\ dnResp' = <<DnsblError(500, "DNSBL check failed")>>
                 /\ UNCHANGED <<dnReq, dnBatch, dnProbes, dnResults, dnIO>>
            ELSE IF JsFalsy(target) \/ target.t # "string" \/ Trim(target.v) = <<>>
            THEN /\ dnPc' = "rejected"
                 /\ dnResp' = <<DnsblError(400, "Target IP or domain is required")>>
                 /\ UNCHANGED <<dnReq, dnBatch, dnProbes, dnResults, dnIO>>
            ELSE IF type = "domain"
            THEN /\ dnPc' = "resolve4"
                 /\ dnReq' = <<req>>
                 /\ dnIO' = {"resolve4"}
                 /\ UNCHANGED <<dnBatch, dnProbes, dnResults, dnResp>>
            ELSE /\ dnPc' = "checking"
                 /\ dnReq' = <<req>>
                 /\ dnBatch' = 1
                 /\ dnProbes' = DnsblBatchProbes(req, 1)
                 /\ dnIO' = BatchIO(DnsblBatchProbes(req, 1))
                 /\ UNCHANGED <<dnResults, dnResp>>
    /\ UNCHANGED <<txVars, pgVars, bmVars, fnVars, axVars, rbVars, pfVars, tlVars>>

\* resolveTarget: dns.resolve4(target) settles and dns.resolve6(target) starts
DnsblResolve4Done ==
    /\ dnPc = "resolve4"
    /\ \E ipv4s \in Resolve4Outcomes :
        dnReq' = <<[dnReq[1] EXCEPT !.ips = ipv4s]>>
    /\ dnPc' = "resolve6"
    /\ dnIO' = dnIO \cup {"resolve6"}
    /\ UNCHANGED <<dnBatch, dnProbes, dnResults, dnResp, txVars, pgVars, bmVars, fnVars, axVars, rbVars, pfVars, tlVars>>

\* resolveTarget: dns.resolve6(target) settles; without any address the request
\* fails, otherwise the domain-zone checks start: lines 212-236, 256-259
DnsblResolve6Done ==
    /\ dnPc = "resolve6"
    /\ \E ipv6s \in Resolve6Outcomes :
        LET req == [dnReq[1] EXCEPT !.ips = @ \o ipv6s]
        IN  IF Len(req.ips) = 0
            THEN /\ dnPc' = "rejected"
                 /\ dnResp' = <<DnsblError(500, "DNSBL check failed: Failed to resolve domain")>>
                 /\ UNCHANGED <<dnReq, dnBatch, dnProbes, dnResults, dnIO>>
            ELSE /\ dnPc' = "checking"
                 /\ dnReq' = <<req>>
                 /\ dnBatch' = 1
                 /\ dnProbes' = DnsblBatchProbes(req, 1)
                 /\ dnIO' = dnIO \cup BatchIO(DnsblBatchProbes(req, 1))
                 /\ UNCHANGED <<dnResults, dnResp>>
    /\ UNCHANGED <<txVars, pgVars, bmVars, fnVars, axVars, rbVars, pfVars, tlVars>>

\* dns.resolve4(query) of one checkRBL call settles
DnsblADone(k) ==
    /\ dnPc = "checking"
    /\ dnProbes[k].stage = "a"
    /\ \E o \in AOutcomesLite :
        /\ dnProbes' = [dnProbes EXCEPT ![k] = CheckRBLAfterA(@, o)]
        /\ dnIO' = IF o.ok THEN dnIO \cup {"rbl-txt"} ELSE dnIO
    /\ UNCHANGED <<dnPc, dnReq, dnBatch, dnResults, dnResp, txVars, pgVars, bmVars, fnVars, axVars, rbVars, pfVars, tlVars>>

\* dns.resolveTxt(query) of one checkRBL call settles
DnsblTxtDone(k) ==
    /\ dnPc = "checking"
    /\ dnProbes[k].stage = "txt"
    /\ \E o \in TxtOutcomesLite :
        dnProbes' = [dnProbes EXCEPT ![k] = CheckRBLAfterTxt(@, o)]
    /\ UNCHANGED <<dnPc, dnReq, dnBatch, dnResults, dnResp, dnIO, txVars, pgVars, bmVars, fnVars, axVars, rbVars, pfVars, tlVars>>

\* the awaited Promise.all resolves: its results are pushed, and POST either maps
\* the next batch or builds the summary and responds: lines 260-296
DnsblBatchDone ==
    /\ dnPc = "checking"
    /\ \A k \in 1..Len(dnProbes) : dnProbes[k].stage = "done"
    /\ LET req == dnReq[1]
           allResults == dnResults \o DnsblBatchResults(req, dnBatch, dnProbes)
       IN  /\ dnResults' = allResults
           /\ IF dnBatch < DnsblBatches(req)
              THEN /\ dnBatch' = dnBatch + 1
                   /\ dnProbes' = DnsblBatchProbes(req, dnBatch + 1)
                   /\ dnIO' = dnIO \cup BatchIO(DnsblBatchProbes(req, dnBatch + 1))
                   /\ UNCHANGED <<dnPc, dnResp>>
              ELSE /\ dnPc' = "responded"
                   /\ dnProbes' = <<>>
                   /\ dnResp' = <<DnsblOk(req, allResults)>>
                   /\ UNCHANGED <<dnBatch, dnIO>>
    /\ UNCHANGED <<dnReq, txVars, pgVars, bmVars, fnVars, axVars, rbVars, pfVars, tlVars>>

NextDNSBL ==
    \/ DnsblPost
    \/ DnsblResolve4Done
    \/ DnsblResolve6Done
    \/ \E k \in 1..Len(dnProbes) : DnsblADone(k)
    \/ \E k \in 1..Len(dnProbes) : DnsblTxtDone(k)
    \/ DnsblBatchDone

(***************************************************************************)
(* checkRBL on one zone                                                    *)
(***************************************************************************)
\* the calls under test: a domain against the domain zone, an IPv4 and an IPv6
\* address against an IP zone, and a string that is no IP against an IP zone
RblCalls ==
    { CheckRBLStart(DomainAIo, 1, TRUE),
      CheckRBLStart(Ip4, 2, FALSE),
      CheckRBLStart(Ip6, 3, FALSE),
      CheckRBLStart(DomainAIo, 2, FALSE) }

NothingSeen == [a |-> <<>>, txt |-> <<>>]

\* checkRBL is called and runs up to its first await
RblCall ==
    /\ Quiet
    /\ \E call \in RblCalls : rbProbe' = <<call>>
    /\ UNCHANGED <<rbSeen, txVars, pgVars, bmVars, fnVars, axVars, dnVars, pfVars, tlVars>>

\* dns.resolve4(query) settles
RblADone ==
    /\ rbProbe # <<>>
    /\ rbProbe[1].stage = "a"
    /\ \E o \in AOutcomes :
        /\ rbProbe' = <<CheckRBLAfterA(rbProbe[1], o)>>
        /\ rbSeen' = [rbSeen EXCEPT !.a = <<o>>]
    /\ UNCHANGED <<txVars, pgVars, bmVars, fnVars, axVars, dnVars, pfVars, tlVars>>

\* dns.resolveTxt(query) settles
RblTxtDone ==
    /\ rbProbe # <<>>
    /\ rbProbe[1].stage = "txt"
    /\ \E o \in TxtOutcomes :
        /\ rbProbe' = <<CheckRBLAfterTxt(rbProbe[1], o)>>
        /\ rbSeen' = [rbSeen EXCEPT !.txt = <<o>>]
    /\ UNCHANGED <<txVars, pgVars, bmVars, fnVars, axVars, dnVars, pfVars, tlVars>>

NextRBL == RblCall \/ RblADone \/ RblTxtDone

(***************************************************************************)
(* Resolver comparator: POST /api/internal/diagnostics/dns-performance     *)
(***************************************************************************)
DNS_TIMEOUT_MS == 5000

ToUpperChar(c) ==
    IF c \in LowerChars THEN UpperSeq[CHOOSE i \in 1..26 : LowerSeq[i] = c] ELSE c
ToUpperCase(s) == [i \in 1..Len(s) |-> ToUpperChar(s[i])]

RECORD_TYPES ==
    { <<"A">>, <<"A","A","A","A">>, <<"M","X">>, <<"T","X","T">>, <<"N","S">>,
      <<"C","N","A","M","E">>, <<"S","O","A">> }

\* RESOLVERS, abridged to its first four entries
RESOLVERS ==
    << [ip |-> "1.1.1.1", name |-> "Cloudflare"],
       [ip |-> "8.8.8.8", name |-> "Google"],
       [ip |-> "9.9.9.9", name |-> "Quad9"],
       [ip |-> "208.67.222.222", name |-> "OpenDNS"] >>

\* Array.prototype.slice(0, n)
SliceTo(seq, n) == SubSeq(seq, 1, Min(Len(seq), n))

\* Array.prototype.sort((a, b) => a - b)
RECURSIVE SortAsc(_)
SortAsc(seq) ==
    IF Len(seq) <= 1 THEN seq
    ELSE LET rest == SortAsc(Tail(seq))
             x == Head(seq)
             k == Cardinality({i \in 1..Len(rest) : rest[i] < x})
         IN  SubSeq(rest, 1, k) \o <<x>> \o SubSeq(rest, k + 1, Len(rest))

RECURSIVE Sum(_)
Sum(seq) == IF seq = <<>> THEN 0 ELSE Head(seq) + Sum(Tail(seq))

\* Math.round(n / d) for n >= 0, d > 0
RoundDiv(n, d) == (2 * n + d) \div (2 * d)

\* A result of the comparator. Times are in hundredths of a millisecond, the
\* unit queryResolver rounds to (line 109).
ResolverResult(resolver, success, responseTime, records, err) ==
    [resolver |-> resolver.ip, resolverName |-> resolver.name, success |-> success,
     responseTime |-> responseTime, records |-> records, error |-> err]

\* the callback of RESOLVERS.map, try branch: lines 141-149
ResolverSuccess(resolver, records, time) ==
    ResolverResult(resolver, TRUE, time, SliceTo(records, 10), Undefined)

\* mutant of ResolverErrorMsg: the message of the failure is passed on as it is
ResolverErrorMsgRaw(err, recordType) == err.message

\* the callback of RESOLVERS.map, catch branch: lines 150-174 (the message for
\* ENODATA is written without the record type it names)
ResolverErrorMsg(err, recordType) ==
    IF err.code = "ENOTFOUND" THEN "Domain not found"
    ELSE IF err.code = "ENODATA" THEN "No records"
    ELSE IF err.code = "ETIMEOUT" THEN "Query timeout (>5s)"
    ELSE IF err.code = "ESERVFAIL" THEN "Server failure"
    ELSE IF err.code = "EREFUSED" THEN "Query refused"
    ELSE IF Truthy(err.message) THEN err.message
    ELSE "Unknown error"

ResolverFailure(resolver, err, recordType) ==
    ResolverResult(resolver, FALSE, 0, <<>>, ResolverErrorMsg(err, recordType))

\* the rejection of withTimeout's timer: line 53
PerfTimerError == [code |-> "ETIMEOUT", message |-> "DNS query timeout"]

PerfIsSuccess(r) == r.success

\* successfulResults.reduce((prev, curr) => prev.responseTime < curr.responseTime ? prev : curr)
RECURSIVE ReduceFastest(_, _)
ReduceFastest(seq, prev) ==
    IF seq = <<>> THEN prev
    ELSE ReduceFastest(Tail(seq),
                       IF prev.responseTime < Head(seq).responseTime THEN prev ELSE Head(seq))

\* successfulResults.reduce((prev, curr) => prev.responseTime > curr.responseTime ? prev : curr)
RECURSIVE ReduceSlowest(_, _)
ReduceSlowest(seq, prev) ==
    IF seq = <<>> THEN prev
    ELSE ReduceSlowest(Tail(seq),
                       IF prev.responseTime > Head(seq).responseTime THEN prev ELSE Head(seq))

\* the median of the sorted response times, rounded to hundredths: lines 197-200, 206
PerfMedian(responseTimes) ==
    LET n == Len(responseTimes)
    IN  IF n % 2 = 0
        THEN RoundDiv(responseTimes[n \div 2] + responseTimes[n \div 2 + 1], 2)
        ELSE responseTimes[n \div 2 + 1]

\* statistics as they would be were the reductions run over all results, failed
\* ones (responseTime 0) included
PerfStatisticsOverAll(results) ==
    LET successfulResults == Filter(results, PerfIsSuccess)
        responseTimes == SortAsc([i \in 1..Len(successfulResults) |->
                                      successfulResults[i].responseTime])
    IN  IF Len(successfulResults) = 0
        THEN [fastest |-> [resolver |-> "N/A", time |-> 0],
              slowest |-> [resolver |-> "N/A", time |-> 0],
              average |-> 0, median |-> 0, successRate |-> 0]
        ELSE LET fastestResult == ReduceFastest(Tail(results), Head(results))
                 slowestResult == ReduceSlowest(Tail(results), Head(results))
             IN  [fastest |-> [resolver |-> fastestResult.resolverName,
                               time |-> fastestResult.responseTime],
                  slowest |-> [resolver |-> slowestResult.resolverName,
                               time |-> slowestResult.responseTime],
                  average |-> RoundDiv(Sum(responseTimes), Len(responseTimes)),
                  median |-> PerfMedian(responseTimes),
                  successRate |-> RoundDiv(Len(successfulResults) * 100, Len(results))]

\* statistics: lines 179-211
PerfStatistics(results) ==
    LET successfulResults == Filter(results, PerfIsSuccess)
        responseTimes == SortAsc([i \in 1..Len(successfulResults) |->
                                      successfulResults[i].responseTime])
    IN  IF Len(successfulResults) = 0
        THEN [fastest |-> [resolver |-> "N/A", time |-> 0],
              slowest |-> [resolver |-> "N/A", time |-> 0],
              average |-> 0, median |-> 0, successRate |-> 0]
        ELSE LET fastestResult == ReduceFastest(Tail(successfulResults),
                                                Head(successfulResults))
                 slowestResult == ReduceSlowest(Tail(successfulResults),
                                                Head(successfulResults))
             IN  [fastest |-> [resolver |-> fastestResult.resolverName,
                               time |-> fastestResult.responseTime],
                  slowest |-> [resolver |-> slowestResult.resolverName,
                               time |-> slowestResult.responseTime],
                  average |-> RoundDiv(Sum(responseTimes), Len(responseTimes)),
                  median |-> PerfMedian(responseTimes),
                  successRate |-> RoundDiv(Len(successfulResults) * 100, Len(results))]

NoStatistics ==
    [fastest |-> [resolver |-> "N/A", time |-> 0],
     slowest |-> [resolver |-> "N/A", time |-> 0],
     average |-> 0, median |-> 0, successRate |-> 0]

PerfError(status, message) ==
    [status |-> status, message |-> message, domain |-> <<>>, recordType |-> <<>>,
     results |-> <<>>, statistics |-> NoStatistics]

PerfOk(req, results) ==
    [status |-> 200, message |-> "", domain |-> req.domain,
     recordType |-> ToUpperCase(req.recordType), results |-> results,
     statistics |-> PerfStatistics(results)]

\* request bodies: json is FALSE when request.json() throws; a recordType that is
\* undefined takes the default 'A'
PerfDomains ==
    { JsUndefined, JsString(<<" ", " ">>), JsString(<<"a", " ", "b">>),
      JsString(<<" ", "A", ".", "I", "O", " ">>) }

PerfRecordTypes == { JsUndefined, JsString(<<"m", "x">>), JsString(<<"X">>) }

PerfBodies ==
    {[json |-> FALSE, domain |-> JsUndefined, recordType |-> JsUndefined]}
    \cup [json : {TRUE}, domain : PerfDomains, recordType : PerfRecordTypes]

\* what one resolver's query can settle with: records after a time in hundredths
\* of a millisecond, or a failure
PerfAnswer(records, time) ==
    [ok |-> TRUE, records |-> records, time |-> time, err |-> [code |-> Undefined, message |-> ""]]
PerfFailure(code, message) ==
    [ok |-> FALSE, records |-> <<>>, time |-> 0, err |-> [code |-> code, message |-> message]]

PerfOutcomes ==
    { PerfAnswer(<<"192.0.2.1">>, 1234),
      PerfAnswer(<<"192.0.2.1">>, 2001),
      PerfFailure("ENOTFOUND", "queryA ENOTFOUND a.io"),
      PerfFailure(Undefined, "") }

\* one callback of RESOLVERS.map: the query is pending and withTimeout's timer armed
PerfProbe(i) ==
    [resolver |-> i, query |-> "pending", timer |-> "armed", caught |-> <<>>, result |-> <<>>]

\* POST up to its first await of network I/O: lines 113-140
PerfPost ==
    /\ Quiet
    /\ \E body \in PerfBodies :
        LET domain == body.domain
            recordType == IF body.recordType.t = "undefined" THEN <<"A">> ELSE body.recordType.v
            trimmedDomain == ToLowerCase(Trim(domain.v))
        IN  IF ~body.json
            THEN /\ pfPc' = "rejected"
                 /\ pfResp' = <<PerfError(400, "Invalid JSON in request body")>>
                 /\ UNCHANGED <<pfReq, pfProbes, pfIO>>
            ELSE IF JsFalsy(domain) \/ domain.t # "string" \/ Trim(domain.v) = <<>>
            THEN /\ pfPc' = "rejected"
                 /\ pfResp' = <<PerfError(400, "Domain is required")>>
                 /\ UNCHANGED <<pfReq, pfProbes, pfIO>>
            ELSE IF ~ValidateDomain(trimmedDomain)
            THEN /\ pfPc' = "rejected"
                 /\ pfResp' = <<PerfError(400, "Invalid domain name format")>>
                 /\ UNCHANGED <<pfReq, pfProbes, pfIO>>
            ELSE IF ToUpperCase(recordType) \notin RECORD_TYPES
            THEN /\ pfPc' = "rejected"
                 /\ pfResp' = <<PerfError(400, "Invalid record type")>>
                 /\ UNCHANGED <<pfReq, pfProbes, pfIO>>
            ELSE /\ pfPc' = "querying"
                 /\ pfReq' = <<[domain |-> trimmedDomain, recordType |-> recordType]>>
                 /\ pfProbes' = [i \in 1..Len(RESOLVERS) |-> PerfProbe(i)]
                 /\ pfIO' = {"resolve"}
                 /\ UNCHANGED pfResp
    /\ UNCHANGED <<txVars, pgVars, bmVars, fnVars, axVars, rbVars, dnVars, tlVars>>

\* one resolver's query settles: it wins the race of withTimeout if the timer has
\* not fired, and is discarded otherwise (lines 49-56, 141-174)
PerfQueryDone(i) ==
    /\ pfPc \in {"querying", "responded"}
    /\ pfProbes[i].query = "pending"
    /\ \E o \in PerfOutcomes :
        pfProbes' = [pfProbes EXCEPT
            ![i].query = "done",
            ![i].caught = IF pfProbes[i].timer = "fired" \/ o.ok THEN @ ELSE <<o.err>>,
            ![i].result =
                IF pfProbes[i].timer = "fired" THEN @
                ELSE IF o.ok
                THEN <<ResolverSuccess(RESOLVERS[i], o.records, o.time)>>
                ELSE <<ResolverFailure(RESOLVERS[i], o.err, pfReq[1].recordType)>>]
    /\ UNCHANGED <<pfPc, pfReq, pfResp, pfIO, txVars, pgVars, bmVars, fnVars, axVars, rbVars, dnVars, tlVars>>

\* the timer of withTimeout fires while the query is pending: the race is lost to
\* it. (Once the query has settled the timer's rejection has no effect.)
PerfTimerFire(i) ==
    /\ pfPc \in {"querying", "responded"}
    /\ pfProbes[i].timer = "armed"
    /\ pfProbes[i].query = "pending"
    /\ pfProbes' = [pfProbes EXCEPT
            ![i].timer = "fired",
            ![i].caught = <<PerfTimerError>>,
            ![i].result = <<ResolverFailure(RESOLVERS[i], PerfTimerError,
                                            pfReq[1].recordType)>>]
    /\ UNCHANGED <<pfPc, pfReq, pfResp, pfIO, txVars, pgVars, bmVars, fnVars, axVars, rbVars, dnVars, tlVars>>

\* Promise.all resolves; POST computes the statistics and responds: lines 178-221
PerfRespond ==
    /\ pfPc = "querying"
    /\ \A i \in 1..Len(pfProbes) : pfProbes[i].result # <<>>
    /\ pfPc' = "responded"
    /\ pfResp' = <<PerfOk(pfReq[1], [i \in 1..Len(pfProbes) |-> pfProbes[i].result[1]])>>
    /\ UNCHANGED <<pfReq, pfProbes, pfIO, txVars, pgVars, bmVars, fnVars, axVars, rbVars, dnVars, tlVars>>

NextPerf ==
    \/ PerfPost
    \/ \E i \in 1..Len(pfProbes) : PerfQueryDone(i)
    \/ \E i \in 1..Len(pfProbes) : PerfTimerFire(i)
    \/ PerfRespond

IdlePerf ==
    /\ pfPc = "idle"
    /\ pfReq = <<>>
    /\ pfProbes = <<>>
    /\ pfResp = <<>>
    /\ pfIO = {}

(***************************************************************************)
(* TLS probes: POST of the TLS endpoint                                    *)
(***************************************************************************)
TLS_VERSIONS == <<"TLSv1", "TLSv1.1", "TLSv1.2", "TLSv1.3">>

\* parseHost: /^(.+?):(\d+)$/ splits off a trailing port; POST keeps the host only
ParseHost(hostPort) ==
    LET n == Len(hostPort)
        cuts == {p \in 2..(n - 1) :
                    /\ hostPort[p] = ":"
                    /\ \A q \in (p + 1)..n : IsDigit(hostPort[q])}
    IN  IF cuts = {} THEN hostPort
        ELSE SubSeq(hostPort, 1, (CHOOSE p \in cuts : \A q \in cuts : p <= q) - 1)

\* request bodies: json is FALSE when request.json() throws; host stands for the
\* member host (certificate, versions, alpn) or hostname (ocsp-stapling,
\* cipher-presets); port is absent or a number
TlsActions == {"certificate", "versions", "alpn", "ocsp-stapling", "cipher-presets", "other"}

TlsHosts ==
    { JsUndefined, JsString(<<>>), JsString(<<" ">>), JsString(DomainAIo),
      JsString(DomainAIo \o <<":", "8", "4">>) }

TlsPorts == { <<>>, <<0>>, <<443>>, <<70000>> }

TlsBodies ==
    {[json |-> FALSE, action |-> "other", host |-> JsUndefined, port |-> <<>>]}
    \cup [json : {TRUE}, action : TlsActions, host : TlsHosts, port : TlsPorts]

\* The functions of certificate, versions and alpn call `(tls as any).connect`,
\* and the file imports only `connect` from node:tls: where the name tls is not
\* bound the call throws a ReferenceError, where it names node:tls it connects.
TlsBindings == BOOLEAN

UsesTlsName(action) == action \in {"certificate", "versions", "alpn"}

\* tls.connect throws before any I/O: unbound name, or a port net.connect rejects
ConnectThrows(req) ==
    \/ UsesTlsName(req.action) /\ ~req.bound
    \/ req.port < 0 \/ req.port >= 65536

ConnectThrowsMessage(req) ==
    IF UsesTlsName(req.action) /\ ~req.bound THEN "tls is not defined"
    ELSE "Port should be >= 0 and < 65536"

\* a socket with the timer created next to it. sock: "connecting", "connected"
\* (secureConnect delivered), "failed" ('error' delivered), "destroyed" (by the
\* socket's own 'timeout' handler). timer: "none", "armed", "cleared", "fired".
\* promise: the promise wrapping the connection ("timedout": rejected by the timer).
TlsProbe(timer) ==
    [sock |-> "connecting", timer |-> timer, promise |-> "pending"]

\* the promise rejected by a connect that threw; the timer stays armed
TlsThrownProbe(timer) ==
    [sock |-> "none", timer |-> timer, promise |-> "rejected"]

NoTlsOut ==
    [supported |-> [v \in 1..Len(TLS_VERSIONS) |-> "unset"],
     errors |-> [v \in 1..Len(TLS_VERSIONS) |-> ""],
     keys |-> <<>>,
     stapled |-> FALSE,
     ocspData |-> "null"]

\* results[version] = value: a key is added to the object when first assigned, and
\* keys holds the versions in that order (the order Object.entries lists them)
SetSupported(out, v, value) ==
    [out EXCEPT !.supported[v] = value,
                !.keys = IF \E k \in 1..Len(@) : @[k] = v THEN @ ELSE Append(@, v)]

\* mutant of SupportedVersions: the filter on the supported flag is left out
SupportedVersionsUnfiltered(out) ==
    [k \in 1..Len(out.keys) |-> TLS_VERSIONS[out.keys[k]]]

\* Object.entries(results).filter(([_, supported]) => supported).map(([version]) => version)
SupportedVersions(out) ==
    LET IsSupported(v) == out.supported[v] = "true"
        kept == SelectSeq(out.keys, IsSupported)
    IN  [k \in 1..Len(kept) |-> TLS_VERSIONS[kept[k]]]

TlsResponse(status, action, message) ==
    [status |-> status, action |-> action, message |-> message,
     supported |-> <<>>, errors |-> <<>>, supportedVersions |-> <<>>,
     minVersion |-> "null", maxVersion |-> "null", totalSupported |-> 0,
     staplingEnabled |-> FALSE, ocspResponse |-> "null", recommendations |-> <<>>,
     presets |-> <<>>, overallGrade |-> "", chain |-> <<>>]

TlsError(status, action, message) == TlsResponse(status, action, message)

\* the value probeTLSVersions returns: lines 221-232
VersionsResponse(out) ==
    LET supportedVersions == SupportedVersions(out)
        n == Len(supportedVersions)
    IN  [TlsResponse(200, "versions", "") EXCEPT
            !.supported = out.supported,
            !.errors = out.errors,
            !.supportedVersions = supportedVersions,
            !.minVersion = IF n = 0 THEN "null" ELSE supportedVersions[1],
            !.maxVersion = IF n = 0 THEN "null" ELSE supportedVersions[n],
            !.totalSupported = n]

\* The certificates a peer presents: certificates are numbered 1..n, cert is the
\* peer certificate (0: an empty object, no certificate), and issuer[c] is the
\* certificate c.issuerCertificate refers to (0: undefined or an empty object).
PeerCertificate(cert, issuer) == [cert |-> cert, issuer |-> issuer]

CHAIN_LIMIT == 10

\* the while loop of getCertificateInfo from currentCert on: lines 133-138. The
\* chain holds the certificates pushed, in order.
RECURSIVE ChainFrom(_, _, _)
ChainFrom(peer, currentCert, chain) ==
    IF currentCert = 0 THEN chain
    ELSE LET pushed == Append(chain, currentCert)
             issuerCertificate == peer.issuer[currentCert]
         IN  IF issuerCertificate = peer.cert \/ Len(pushed) > CHAIN_LIMIT THEN pushed
             ELSE ChainFrom(peer, issuerCertificate, pushed)

\* the chain of getCertificateInfo: lines 130-138
ExtractChain(peer) == ChainFrom(peer, peer.cert, <<>>)

\* peers of the request model: a leaf alone, a leaf under an intermediate, a
\* self-signed leaf, a leaf under a self-signed root
SamplePeers ==
    { PeerCertificate(1, <<0>>),
      PeerCertificate(1, <<2, 0>>),
      PeerCertificate(1, <<1>>),
      PeerCertificate(1, <<2, 2>>) }

\* testCipherPresets, the grade from the presets' supported flags: lines 477-517
CipherGrade(presets) ==
    IF presets[1] THEN "A" ELSE IF presets[2] THEN "B" ELSE IF presets[3] THEN "D" ELSE "F"

\* The loop of probeTLSVersions from version v on, as far as it runs without
\* awaiting I/O: a connect that throws rejects the promise, the catch records the
\* version as unsupported and the loop goes on: lines 176-219. It yields the
\* probes created and the results so far.
RECURSIVE ProbeVersionsFrom(_, _, _, _)
ProbeVersionsFrom(req, v, probes, out) ==
    IF v > Len(TLS_VERSIONS) THEN [probes |-> probes, out |-> out, done |-> TRUE]
    ELSE IF ConnectThrows(req)
    THEN ProbeVersionsFrom(req, v + 1, Append(probes, TlsThrownProbe("armed")),
             [SetSupported(out, v, "false") EXCEPT !.errors[v] = ConnectThrowsMessage(req)])
    ELSE [probes |-> Append(probes, TlsProbe("armed")), out |-> out, done |-> FALSE]

\* POST up to its first await of network I/O: lines 520-582
TlsPost ==
    /\ Quiet
    /\ \E body \in TlsBodies, bound \in TlsBindings :
        LET action == body.action
            port == IF body.port = <<>> THEN 443 ELSE body.port[1]
            host == IF UsesTlsName(action) THEN ParseHost(body.host.v) ELSE body.host.v
            req == [action |-> action, host |-> host, port |-> port, bound |-> bound]
            loop == ProbeVersionsFrom(req, 1, <<>>, NoTlsOut)
        IN  IF ~body.json
            THEN /\ tlPc' = "rejected"
                 /\ tlResp' = <<TlsError(500, action, "TLS operation failed")>>
                 /\ UNCHANGED <<tlReq, tlProbes, tlOut, tlIO>>
            ELSE IF action = "other"
            THEN /\ tlPc' = "rejected"
                 /\ tlResp' = <<TlsError(400, action, "Unknown action")>>
                 /\ UNCHANGED <<tlReq, tlProbes, tlOut, tlIO>>
            ELSE IF UsesTlsName(action) /\ body.host.t # "string"
            THEN \* parseHost(undefined) throws a TypeError
                 /\ tlPc' = "rejected"
                 /\ tlResp' = <<TlsError(500, action, "TLS operation failed")>>
                 /\ UNCHANGED <<tlReq, tlProbes, tlOut, tlIO>>
            ELSE IF ~UsesTlsName(action)
                    /\ (JsFalsy(body.host) \/ body.host.t # "string" \/ Trim(body.host.v) = <<>>)
            THEN /\ tlPc' = "rejected"
                 /\ tlResp' = <<TlsError(400, action, "Invalid hostname provided")>>
                 /\ UNCHANGED <<tlReq, tlProbes, tlOut, tlIO>>
            ELSE IF ~UsesTlsName(action) /\ (port < 1 \/ port > 65535)
            THEN /\ tlPc' = "rejected"
                 /\ tlResp' = <<TlsError(400, action, "Invalid port number")>>
                 /\ UNCHANGED <<tlReq, tlProbes, tlOut, tlIO>>
            ELSE IF action = "versions"
            THEN /\ tlReq' = <<req>>
                 /\ tlProbes' = loop.probes
                 /\ tlOut' = loop.out
                 /\ IF loop.done
                    THEN /\ tlPc' = "responded"
                         /\ tlResp' = <<VersionsResponse(loop.out)>>
                         /\ UNCHANGED tlIO
                    ELSE /\ tlPc' = "probing"
                         /\ tlIO' = {"tls-connect"}
                         /\ UNCHANGED tlResp
            ELSE IF ConnectThrows(req)
            THEN /\ tlPc' = "failed"
                 /\ tlReq' = <<req>>
                 /\ tlProbes' = <<TlsThrownProbe("armed")>>
                 /\ tlResp' = <<TlsError(500, action, "TLS operation failed")>>
                 /\ UNCHANGED <<tlOut, tlIO>>
            ELSE /\ tlPc' = "connecting"
                 /\ tlReq' = <<req>>
                 /\ tlProbes' = <<TlsProbe(IF UsesTlsName(action) THEN "armed" ELSE "none")>>
                 /\ tlIO' = {"tls-connect"}
                 /\ UNCHANGED <<tlOut, tlResp>>
    /\ UNCHANGED <<txVars, pgVars, bmVars, fnVars, axVars, rbVars, dnVars, pfVars>>

\* probeTLSVersions goes on after the promise of version v settled: the next
\* version's timer and socket are created, or the response is built
VersionsContinue(probes, out) ==
    LET loop == ProbeVersionsFrom(tlReq[1], Len(probes) + 1, probes, out)
    IN  /\ tlProbes' = loop.probes
        /\ tlOut' = loop.out
        /\ IF loop.done
           THEN /\ tlPc' = "responded"
                /\ tlResp' = <<VersionsResponse(loop.out)>>
           ELSE UNCHANGED <<tlPc, tlResp>>

\* what a socket event or timer of version v leaves behind: the loop goes on if
\* the event settled the promise being awaited, and only the objects change if the
\* promise was settled before
VersionsAfter(v, probe, out) ==
    LET probes == [tlProbes EXCEPT ![v] = probe]
    IN  IF tlProbes[v].promise = "pending" /\ tlPc = "probing"
        THEN VersionsContinue(probes, out)
        ELSE /\ tlProbes' = probes
             /\ tlOut' = out
             /\ UNCHANGED <<tlPc, tlResp>>

\* the connect callback of a version's socket: lines 193-198
VersionConnected(v) ==
    /\ tlPc \in {"probing", "responded"}
    /\ tlReq[1].action = "versions"
    /\ tlProbes[v].sock = "connecting"
    /\ VersionsAfter(v,
          [sock |-> "connected",
           timer |-> IF tlProbes[v].timer = "armed" THEN "cleared" ELSE tlProbes[v].timer,
           promise |-> IF tlProbes[v].promise = "pending" THEN "resolved"
                       ELSE tlProbes[v].promise],
          SetSupported(tlOut, v, "true"))
    /\ UNCHANGED <<tlReq, tlIO, txVars, pgVars, bmVars, fnVars, axVars, rbVars, dnVars, pfVars>>

\* the 'error' handler of a version's socket: lines 200-205
VersionSocketError(v) ==
    /\ tlPc \in {"probing", "responded"}
    /\ tlReq[1].action = "versions"
    /\ tlProbes[v].sock = "connecting"
    /\ VersionsAfter(v,
          [sock |-> "failed",
           timer |-> IF tlProbes[v].timer = "armed" THEN "cleared" ELSE tlProbes[v].timer,
           promise |-> IF tlProbes[v].promise = "pending" THEN "resolved"
                       ELSE tlProbes[v].promise],
          [SetSupported(tlOut, v, "false") EXCEPT !.errors[v] = "ECONNRESET"])
    /\ UNCHANGED <<tlReq, tlIO, txVars, pgVars, bmVars, fnVars, axVars, rbVars, dnVars, pfVars>>

\* the 'timeout' handler of a version's socket (5000 ms without activity on the
\* socket): lines 207-213
VersionSocketTimeout(v) ==
    /\ tlPc \in {"probing", "responded"}
    /\ tlReq[1].action = "versions"
    /\ tlProbes[v].sock = "connecting"
    /\ VersionsAfter(v,
          [sock |-> "destroyed",
           timer |-> IF tlProbes[v].timer = "armed" THEN "cleared" ELSE tlProbes[v].timer,
           promise |-> IF tlProbes[v].promise = "pending" THEN "resolved"
                       ELSE tlProbes[v].promise],
          [SetSupported(tlOut, v, "false") EXCEPT !.errors[v] = "Timeout"])
    /\ UNCHANGED <<tlReq, tlIO, txVars, pgVars, bmVars, fnVars, axVars, rbVars, dnVars, pfVars>>

\* the 5000 ms timer of a version fires: the promise is rejected, the catch
\* records the version, and the socket is left as it is: lines 179-181, 215-218
VersionTimerFire(v) ==
    /\ tlPc \in {"probing", "responded"}
    /\ tlReq[1].action = "versions"
    /\ tlProbes[v].timer = "armed"
    /\ IF tlProbes[v].promise = "pending"
       THEN VersionsAfter(v,
               [tlProbes[v] EXCEPT !.timer = "fired", !.promise = "timedout"],
               [SetSupported(tlOut, v, "false") EXCEPT !.errors[v] = "Timeout"])
       ELSE VersionsAfter(v, [tlProbes[v] EXCEPT !.timer = "fired"], tlOut)
    /\ UNCHANGED <<tlReq, tlIO, txVars, pgVars, bmVars, fnVars, axVars, rbVars, dnVars, pfVars>>

\* certificate, alpn, cipher-presets: the connect callback resolves the promise
\* and POST responds (cipher-presets draws its flags from Math.random); after a
\* response the callback changes nothing. ocsp-stapling waits for its grace timer.
ConnectConnected ==
    /\ tlPc \in {"connecting", "failed"}
    /\ tlReq[1].action # "versions"
    /\ tlProbes[1].sock = "connecting"
    /\ LET action == tlReq[1].action
           probe == [tlProbes[1] EXCEPT
                        !.sock = "connected",
                        !.timer = IF @ = "armed" THEN "cleared" ELSE @,
                        !.promise = IF @ = "pending" THEN "resolved" ELSE @]
       IN  /\ tlProbes' = <<probe>>
           /\ IF tlPc = "failed" THEN UNCHANGED <<tlPc, tlResp>>
              ELSE IF action = "ocsp-stapling"
              THEN /\ tlPc' = "grace"
                   /\ UNCHANGED tlResp
              ELSE IF action = "cipher-presets"
              THEN /\ tlPc' = "responded"
                   /\ \E presets \in [1..3 -> BOOLEAN] :
                        tlResp' = <<[TlsResponse(200, action, "") EXCEPT
                                        !.presets = presets,
                                        !.overallGrade = CipherGrade(presets)]>>
              ELSE IF action = "certificate"
              THEN /\ tlPc' = "responded"
                   /\ \E peer \in SamplePeers :
                        tlResp' = <<[TlsResponse(200, action, "") EXCEPT
                                        !.chain = ExtractChain(peer)]>>
              ELSE /\ tlPc' = "responded"
                   /\ tlResp' = <<TlsResponse(200, action, "")>>
    /\ UNCHANGED <<tlReq, tlOut, tlIO, txVars, pgVars, bmVars, fnVars, axVars, rbVars, dnVars, pfVars>>

\* the socket's 'error' or 'timeout' handler rejects the promise and POST
\* responds with status 500
ConnectFailed ==
    /\ tlPc \in {"connecting", "failed"}
    /\ tlReq[1].action # "versions"
    /\ tlProbes[1].sock = "connecting"
    /\ \E how \in {"failed", "destroyed"} :
        tlProbes' = <<[tlProbes[1] EXCEPT
                          !.sock = how,
                          !.timer = IF @ = "armed" THEN "cleared" ELSE @,
                          !.promise = IF @ = "pending" THEN "rejected" ELSE @]>>
    /\ IF tlPc = "failed" THEN UNCHANGED <<tlPc, tlResp>>
       ELSE /\ tlPc' = "failed"
            /\ tlResp' = <<TlsError(500, tlReq[1].action, "TLS operation failed")>>
    /\ UNCHANGED <<tlReq, tlOut, tlIO, txVars, pgVars, bmVars, fnVars, axVars, rbVars, dnVars, pfVars>>

\* the 10000 ms timer of getCertificateInfo or probeALPN fires: the promise is
\* rejected and the socket is left as it is: lines 93-95, 237-239
ConnectTimerFire ==
    /\ tlPc \in {"connecting", "failed"}
    /\ tlReq[1].action # "versions"
    /\ tlProbes[1].timer = "armed"
    /\ tlProbes' = <<[tlProbes[1] EXCEPT
                         !.timer = "fired",
                         !.promise = IF @ = "pending" THEN "timedout" ELSE @]>>
    /\ IF tlPc = "failed" THEN UNCHANGED <<tlPc, tlResp>>
       ELSE /\ tlPc' = "failed"
            /\ tlResp' = <<TlsError(500, tlReq[1].action, "TLS operation failed")>>
    /\ UNCHANGED <<tlReq, tlOut, tlIO, txVars, pgVars, bmVars, fnVars, axVars, rbVars, dnVars, pfVars>>

StrEnableStapling ==
    "Consider enabling OCSP stapling for improved privacy and performance"

\* the result the grace timer's callback builds: lines 321-352
OcspResult(out) ==
    LET parsed == out.stapled /\ out.ocspData # "null"
    IN  [TlsResponse(200, "ocsp-stapling", "") EXCEPT
            !.staplingEnabled = out.stapled,
            !.ocspResponse = IF parsed THEN "parsed" ELSE "null",
            !.recommendations = IF parsed THEN <<>> ELSE <<StrEnableStapling>>]

\* checkOCSPStapling: the 'OCSPResponse' event, emitted once in the handshake or
\* after it, with the stapled response or with null when the server stapled
\* none: lines 362-365. stapled is ocspResponseReceived, ocspData ocspResponseData.
OcspResponseEvent ==
    /\ tlPc \in {"connecting", "grace"}
    /\ tlReq[1].action = "ocsp-stapling"
    /\ tlProbes[1].sock \in {"connecting", "connected"}
    /\ ~tlOut.stapled
    /\ \E response \in {"bytes", "null"} :
        tlOut' = [tlOut EXCEPT !.stapled = TRUE, !.ocspData = response]
    /\ UNCHANGED <<tlPc, tlReq, tlProbes, tlResp, tlIO, txVars, pgVars, bmVars, fnVars, axVars, rbVars, dnVars, pfVars>>

\* checkOCSPStapling: the 100 ms timer after the connection fires: lines 320-356
OcspGraceTimer ==
    /\ tlPc = "grace"
    /\ tlPc' = "responded"
    /\ tlResp' = <<OcspResult(tlOut)>>
    /\ UNCHANGED <<tlReq, tlProbes, tlOut, tlIO, txVars, pgVars, bmVars, fnVars, axVars, rbVars, dnVars, pfVars>>

NextTLS ==
    \/ TlsPost
    \/ \E v \in 1..Len(tlProbes) : VersionConnected(v)
    \/ \E v \in 1..Len(tlProbes) : VersionSocketError(v)
    \/ \E v \in 1..Len(tlProbes) : VersionSocketTimeout(v)
    \/ \E v \in 1..Len(tlProbes) : VersionTimerFire(v)
    \/ ConnectConnected
    \/ ConnectFailed
    \/ ConnectTimerFire
    \/ OcspResponseEvent
    \/ OcspGraceTimer

IdleTLS ==
    /\ tlPc = "idle"
    /\ tlReq = <<>>
    /\ tlProbes = <<>>
    /\ tlOut = NoTlsOut
    /\ tlResp = <<>>
    /\ tlIO = {}

(***************************************************************************)
(* Certificate chain extraction on one peer certificate                    *)
(***************************************************************************)
MaxCerts == 3

\* every issuer-link structure over up to MaxCerts certificates, and the peer
\* without a certificate
PeerStructures ==
    {PeerCertificate(1, issuer) : issuer \in [1..MaxCerts -> 0..MaxCerts]}
    \cup {PeerCertificate(0, [c \in 1..MaxCerts |-> 0])}

ExtractChainReturn ==
    /\ fnRet = <<>>
    /\ fnRet' = <<ExtractChain(fnArg)>>
    /\ UNCHANGED <<fnArg, txVars, pgVars, bmVars, axVars, rbVars, dnVars, pfVars, tlVars>>

(***************************************************************************)
(* testCipherPresets, invoked twice against one remote behaviour           *)
(***************************************************************************)
\* the presets of testCipherPresets: lines 414-457
CIPHER_PRESETS ==
    << [level |-> "modern",
        ciphers |-> <<"TLS_AES_128_GCM_SHA256", "TLS_AES_256_GCM_SHA384",
                      "TLS_CHACHA20_POLY1305_SHA256">>,
        protocols |-> <<"TLS 1.3">>,
        recommendation |-> ""],
       [level |-> "intermediate",
        ciphers |-> <<"ECDHE-ECDSA-AES128-GCM-SHA256", "ECDHE-RSA-AES128-GCM-SHA256",
                      "ECDHE-ECDSA-AES256-GCM-SHA384", "ECDHE-RSA-AES256-GCM-SHA384">>,
        protocols |-> <<"TLS 1.2", "TLS 1.3">>,
        recommendation |-> ""],
       [level |-> "legacy",
        ciphers |-> <<"ECDHE-RSA-AES128-SHA", "AES128-SHA", "AES256-SHA">>,
        protocols |-> <<"TLS 1.0", "TLS 1.1", "TLS 1.2">>,
        recommendation |-> "Consider upgrading to more secure cipher suites"] >>

\* what Math.random decides for one preset: randomSupport, and for a supported
\* preset one flag per protocol (lines 462, 469-471)
PresetDraws(preset) ==
    {[supported |-> FALSE, protocols |-> [k \in 1..Len(preset.protocols) |-> FALSE]]}
    \cup {[supported |-> TRUE, protocols |-> f] :
             f \in [1..Len(preset.protocols) -> BOOLEAN]}

CipherDraws ==
    {d \in [1..Len(CIPHER_PRESETS) ->
                UNION {PresetDraws(CIPHER_PRESETS[i]) : i \in 1..Len(CIPHER_PRESETS)}] :
        \A i \in 1..Len(CIPHER_PRESETS) : d[i] \in PresetDraws(CIPHER_PRESETS[i])}

\* one pass of the loop over the presets: lines 460-482
PresetOutcome(preset, draw) ==
    LET n == Len(preset.ciphers)
        kept == (7 * n) \div 10                 \* Math.floor(n * 0.7)
    IN  [level |-> preset.level,
         supported |-> draw.supported,
         supportedCiphers |-> IF draw.supported THEN SubSeq(preset.ciphers, 1, kept) ELSE <<>>,
         unsupportedCiphers |-> IF draw.supported THEN SubSeq(preset.ciphers, kept + 1, n)
                                ELSE preset.ciphers,
         protocols |-> draw.protocols,
         recommendation |->
            IF preset.level = "modern" /\ draw.supported
            THEN "Excellent cipher configuration"
            ELSE IF preset.level = "intermediate" /\ draw.supported
            THEN "Good balance of security and compatibility"
            ELSE preset.recommendation]

\* testCipherPresets against a host that behaves as remote says, Math.random
\* deciding as draws says: lines 376-517
TestCipherPresets(remote, draws) ==
    IF remote # "connected"
    THEN [ok |-> FALSE, message |-> remote, presets |-> <<>>, overallGrade |-> ""]
    ELSE LET presets == [i \in 1..Len(CIPHER_PRESETS) |->
                            PresetOutcome(CIPHER_PRESETS[i], draws[i])]
         IN  [ok |-> TRUE, message |-> "", presets |-> presets,
              overallGrade |-> CipherGrade([i \in 1..3 |-> presets[i].supported])]

CipherRemotes == {"connected", "Connection refused", "Connection timeout", "Host not found"}

\* testCipherPresets returns; it is invoked once more against the same remote
CipherPresetsReturn ==
    /\ Len(fnRet) < 2
    /\ \E draws \in CipherDraws :
        fnRet' = Append(fnRet, TestCipherPresets(fnArg[1], draws))
    /\ UNCHANGED <<fnArg, txVars, pgVars, bmVars, axVars, rbVars, dnVars, pfVars, tlVars>>

(***************************************************************************)
(* Preference stores: the initial value of navbarDisplay and homepageLayout *)
(***************************************************************************)
\* the ids of navbarDisplayOptions and of homepageLayoutOptions ('minimal' is
\* commented out of the latter)
NavbarDisplayIds == {"default", "bookmarked", "frequent", "none"}
HomepageLayoutIds ==
    {"categories", "default", "list", "empty", "bookmarks", "search", "carousel",
     "small-icons"}

\* env.NTB_NAVBAR_DISPLAY ?? 'default' and env.NTB_HOMEPAGE_LAYOUT ?? 'categories'
NullishOr(value, fallback) == IF value \in {Undefined, "null"} THEN fallback ELSE value

\* isValidNavbarDisplay
IsValidNavbarDisplay(mode) == mode \notin {"null", "", Undefined} /\ mode \in NavbarDisplayIds

\* getInitialNavbarDisplay: env is env.NTB_NAVBAR_DISPLAY, stored what
\* localStorage.getItem returns ("throws" when it throws)
GetInitialNavbarDisplay(browser, stored, env) ==
    LET DEFAULT_NAVBAR_DISPLAY == NullishOr(env, "default")
        validDefault == IF IsValidNavbarDisplay(DEFAULT_NAVBAR_DISPLAY)
                        THEN DEFAULT_NAVBAR_DISPLAY ELSE "default"
    IN  IF browser
        THEN IF stored = "throws" THEN validDefault
             ELSE IF IsValidNavbarDisplay(stored) THEN stored ELSE validDefault
        ELSE validDefault

\* getInitialLayout: env is env.NTB_HOMEPAGE_LAYOUT, which the function does not read
GetInitialLayout(browser, stored, env) ==
    IF browser
    THEN IF stored = "throws" THEN "categories"
         ELSE IF stored \in HomepageLayoutIds THEN stored ELSE "categories"
    ELSE "categories"

\* what localStorage holds under the store's key, and what the environment sets
StoredValues == {"null", "throws", "", "default", "list", "bookmarked", "minimal", "bogus"}
EnvValues == {Undefined, "", "default", "list", "bookmarked", "minimal"}

PrefArgs ==
    [store : {"navbarDisplay", "homepageLayout"}, browser : BOOLEAN,
     stored : StoredValues, env : EnvValues]

\* the store is created: writable(getInitialNavbarDisplay())
NavbarDisplayCreate ==
    /\ fnArg[1].store = "navbarDisplay"
    /\ fnRet = <<>>
    /\ fnRet' = <<GetInitialNavbarDisplay(fnArg[1].browser, fnArg[1].stored, fnArg[1].env)>>
    /\ UNCHANGED <<fnArg, txVars, pgVars, bmVars, axVars, rbVars, dnVars, pfVars, tlVars>>

\* the store is created: writable(getInitialLayout())
HomepageLayoutCreate ==
    /\ fnArg[1].store = "homepageLayout"
    /\ fnRet = <<>>
    /\ fnRet' = <<GetInitialLayout(fnArg[1].browser, fnArg[1].stored, fnArg[1].env)>>
    /\ UNCHANGED <<fnArg, txVars, pgVars, bmVars, axVars, rbVars, dnVars, pfVars, tlVars>>

(***************************************************************************)
(* The cap of the nameserver list, on NS sets of up to MaxNames names      *)
(***************************************************************************)
MaxNames == 11

NsLists == UNION { [1..n -> {NsNames[1], NsNames[2]}] : n \in 0..MaxNames }

\* POST caps nameserversToTest and maps it to its callbacks: lines 203-213
AxfrCapReturn ==
    /\ fnArg # <<>>
    /\ fnRet = <<>>
    /\ fnRet' = <<AxfrStartProbes(fnArg[1])>>
    /\ UNCHANGED <<fnArg, txVars, pgVars, bmVars, axVars, rbVars, dnVars, pfVars, tlVars>>

(***************************************************************************)
(* reverseIPv4 and reverseIPv6 on one address string                       *)
(***************************************************************************)
MaxParts == 5

\* colon-separated strings of 3 to MaxParts parts, the parts empty or hex groups,
\* and three addresses written with all 8 groups
Ipv6Groups == { <<>>, <<"1">>, <<"d","b","8">>, <<"2","0","0","1">> }
Ipv6Strings ==
    { Join(parts, <<":">>) :
        parts \in UNION { [1..n -> Ipv6Groups] : n \in 3..MaxParts } }
    \cup { Join([i \in 1..8 |-> IF i = 1 THEN first ELSE last], <<":">>) :
             first \in {<<"2","0","0","1">>, <<"0">>},
             last \in {<<"1">>, <<"d","b","8">>} }

\* dot-separated strings of 3 to MaxParts parts, the parts empty or digits
Ipv4Octets == { <<>>, <<"1">>, <<"0","2">>, <<"9","9","9">> }
Ipv4Strings ==
    { Join(parts, <<".">>) :
        parts \in UNION { [1..n -> Ipv4Octets] : n \in 3..MaxParts } }

ReverseArgs ==
    { <<[fn |-> "reverseIPv6", ip |-> ip]>> : ip \in Ipv6Strings }
    \cup { <<[fn |-> "reverseIPv4", ip |-> ip]>> : ip \in Ipv4Strings }

\* reverseIPv6(ip) returns
ReverseIPv6Return ==
    /\ fnArg[1].fn = "reverseIPv6"
    /\ fnRet = <<>>
    /\ fnRet' = <<ReverseIPv6(fnArg[1].ip)>>
    /\ UNCHANGED <<fnArg, txVars, pgVars, bmVars, axVars, rbVars, dnVars, pfVars, tlVars>>

\* reverseIPv4(ip) returns
ReverseIPv4Return ==
    /\ fnArg[1].fn = "reverseIPv4"
    /\ fnRet = <<>>
    /\ fnRet' = <<ReverseIPv4(fnArg[1].ip)>>
    /\ UNCHANGED <<fnArg, txVars, pgVars, bmVars, axVars, rbVars, dnVars, pfVars, tlVars>>

\* reverseIPv4 is applied to what reverseIPv4(ip) returned
ReverseIPv4Again ==
    /\ fnArg[1].fn = "reverseIPv4"
    /\ Len(fnRet) = 1
    /\ fnRet' = Append(fnRet, ReverseIPv4(fnRet[1]))
    /\ UNCHANGED <<fnArg, txVars, pgVars, bmVars, axVars, rbVars, dnVars, pfVars, tlVars>>

NextReverse == ReverseIPv6Return \/ ReverseIPv4Return \/ ReverseIPv4Again

(***************************************************************************)
(* testAXFR on one dig output                                              *)
(***************************************************************************)
IdleAXFR ==
    /\ axPc = "idle"
    /\ axReq = <<>>
    /\ axProbes = <<>>
    /\ axResp = <<>>
    /\ axIO = {}

IdleRBL == rbProbe = <<>> /\ rbSeen = NothingSeen

IdleDNSBL ==
    /\ dnPc = "idle"
    /\ dnReq = <<>>
    /\ dnBatch = 0
    /\ dnProbes = <<>>
    /\ dnResults = <<>>
    /\ dnResp = <<>>
    /\ dnIO = {}

InitText ==
    /\ txOut \in {JoinLines(t) : t \in Texts \cup LongTexts}
    /\ txRes = <<>>
    /\ IdleFn /\ IdleAXFR /\ IdleRBL /\ IdleDNSBL /\ IdlePerf /\ IdleTLS /\ IdlePage /\ IdleBookmarks

\* testAXFR returns for the output the child process produced
TestAXFRReturn ==
    /\ txRes = <<>>
    /\ txRes' = <<TestAXFROutput(<<"n","s">>, "192.0.2.53", txOut, <<>>, 35)>>
    /\ UNCHANGED <<txOut, pgVars, bmVars, fnVars, axVars, rbVars, dnVars, pfVars, tlVars>>

NextText == TestAXFRReturn

SpecText == InitText /\ [][NextText]_vars

(***************************************************************************)
(* The AXFR prober serving one request                                     *)
(***************************************************************************)
IdleText == txOut = <<>> /\ txRes = <<>>

InitAXFR == IdleText /\ IdleFn /\ IdleAXFR /\ IdleRBL /\ IdleDNSBL /\ IdlePerf /\ IdleTLS /\ IdlePage /\ IdleBookmarks

SpecAXFR == InitAXFR /\ [][NextAXFR]_vars

(***************************************************************************)
(* The blacklist checker                                                   *)
(***************************************************************************)
\* one checkRBL call with every lookup outcome, or one whole request
InitDNSBL == IdleText /\ IdleFn /\ IdleAXFR /\ IdleRBL /\ IdleDNSBL /\ IdlePerf /\ IdleTLS /\ IdlePage /\ IdleBookmarks

SpecDNSBL == InitDNSBL /\ [][NextRBL \/ NextDNSBL]_vars

(***************************************************************************)
(* The resolver comparator and the TLS probes, one request each            *)
(***************************************************************************)
SpecPerf == InitDNSBL /\ [][NextPerf]_vars

SpecTLS == InitDNSBL /\ [][NextTLS]_vars

(***************************************************************************)
(* Functions under test, each on one argument                              *)
(***************************************************************************)
IdleProbers == IdleText /\ IdleAXFR /\ IdleRBL /\ IdleDNSBL /\ IdlePerf /\ IdleTLS /\ IdlePage /\ IdleBookmarks

(***************************************************************************)
(* The DNS query-performance page: testPerformance and its fetch           *)
(***************************************************************************)
MaxRequests == 3

\* controller.abort() on the fetch of one invocation: a pending fetch rejects
\* with an AbortError, a response body that is still being streamed is
\* errored, a body that was read to its end is left alone
AbortCall(c) ==
    CASE c.pc = "fetching" -> [c EXCEPT !.pc = "aborted"]
      [] c.pc \in {"json", "errJson"} /\ c.body = "streaming" ->
             [c EXCEPT !.body = "aborted"]
      [] OTHER -> c

\* abortController?.abort(): abortController holds the last controller
AbortPrevious(calls) ==
    [i \in 1..Len(calls) |->
        IF i = Len(calls) THEN AbortCall(calls[i]) ELSE calls[i]]

PageError(name, message) == [name |-> name, message |-> message]

\* the catch and finally blocks of invocation k for the thrown err
CatchAndFinally(k, err) ==
    /\ pgError' = IF k # pgRequestId \/ err.name = "AbortError"
                  THEN pgError
                  ELSE <<[of |-> k, message |-> err.message]>>
    /\ pgLoading' = IF k = pgRequestId THEN FALSE ELSE pgLoading
    /\ pgCalls' = [pgCalls EXCEPT ![k].pc = "done"]
    /\ UNCHANGED <<pgResults, pgRequestId>>

\* testPerformance is invoked, up to its first await
TestPerformance ==
    /\ pgRequestId < MaxRequests
    /\ \E isInputValid \in BOOLEAN :
          IF ~isInputValid THEN UNCHANGED pgVars
          ELSE /\ pgCalls' = Append(AbortPrevious(pgCalls),
                                    [pc |-> "fetching", body |-> "none"])
               /\ pgRequestId' = pgRequestId + 1
               /\ pgLoading' = TRUE
               /\ pgError' = <<>>
               /\ pgResults' = <<>>
    /\ UNCHANGED <<txVars, fnVars, axVars, rbVars, dnVars, pfVars, tlVars, bmVars>>

\* the fetch of invocation k resolves with a response, up to the next await
FetchResponse(k) ==
    /\ pgCalls[k].pc = "fetching"
    /\ \E ok \in BOOLEAN :
          IF k # pgRequestId
          THEN /\ pgCalls' = [pgCalls EXCEPT ![k].pc = "done"]
               /\ UNCHANGED <<pgRequestId, pgLoading, pgError, pgResults>>
          ELSE /\ pgCalls' = [pgCalls EXCEPT
                                 ![k] = [pc |-> IF ok THEN "json" ELSE "errJson",
                                         body |-> "streaming"]]
               /\ UNCHANGED <<pgRequestId, pgLoading, pgError, pgResults>>
    /\ UNCHANGED <<txVars, fnVars, axVars, rbVars, dnVars, pfVars, tlVars, bmVars>>

\* the fetch of invocation k rejects: aborted, or the network failed
FetchRejected(k) ==
    /\ pgCalls[k].pc \in {"fetching", "aborted"}
    /\ CatchAndFinally(k, IF pgCalls[k].pc = "aborted"
                          THEN PageError("AbortError", "The operation was aborted")
                          ELSE PageError("TypeError", "Failed to fetch"))
    /\ UNCHANGED <<txVars, fnVars, axVars, rbVars, dnVars, pfVars, tlVars, bmVars>>

\* the body of the response of invocation k is read to its end, or the
\* connection fails before that; the promise of response.json() settles in a
\* later task
BodyArrives(k) ==
    /\ pgCalls[k].pc \in {"json", "errJson"}
    /\ pgCalls[k].body = "streaming"
    /\ \E end \in {"closed", "failed"} :
          pgCalls' = [pgCalls EXCEPT ![k].body = end]
    /\ UNCHANGED <<pgRequestId, pgLoading, pgError, pgResults>>
    /\ UNCHANGED <<txVars, fnVars, axVars, rbVars, dnVars, pfVars, tlVars, bmVars>>

\* results = await response.json() of invocation k settles: lines 126-132
JsonSettled(k) ==
    /\ pgCalls[k].pc = "json"
    /\ pgCalls[k].body \in {"closed", "aborted", "failed"}
    /\ CASE pgCalls[k].body = "aborted" ->
                CatchAndFinally(k, PageError("AbortError", "The operation was aborted"))
         [] pgCalls[k].body = "failed" ->
                CatchAndFinally(k, PageError("TypeError", "network error"))
         [] OTHER ->
                \E isJson \in BOOLEAN :
                    IF isJson
                    THEN /\ pgResults' = <<[of |-> k]>>
                         /\ pgLoading' = IF k = pgRequestId THEN FALSE ELSE pgLoading
                         /\ pgCalls' = [pgCalls EXCEPT ![k].pc = "done"]
                         /\ UNCHANGED <<pgError, pgRequestId>>
                    ELSE CatchAndFinally(k, PageError("SyntaxError", "Unexpected token"))
    /\ UNCHANGED <<txVars, fnVars, axVars, rbVars, dnVars, pfVars, tlVars, bmVars>>

\* the response.json() of a response that is not ok settles: lines 114-124;
\* response.text() on the body json() has read rejects with a TypeError
ErrJsonSettled(k) ==
    /\ pgCalls[k].pc = "errJson"
    /\ pgCalls[k].body \in {"closed", "aborted", "failed"}
    /\ IF pgCalls[k].body = "closed"
       THEN \E data \in {"message", "no message", "not json"} :
               CatchAndFinally(k,
                   CASE data = "message" -> PageError("Error", "Invalid domain")
                     [] data = "no message" ->
                            PageError("Error", "Failed to test DNS performance")
                     [] OTHER -> PageError("TypeError", "Body is unusable"))
       ELSE CatchAndFinally(k, PageError("TypeError", "Body is unusable"))
    /\ UNCHANGED <<txVars, fnVars, axVars, rbVars, dnVars, pfVars, tlVars, bmVars>>

NextPage ==
    \/ TestPerformance
    \/ \E k \in 1..Len(pgCalls) : FetchResponse(k)
    \/ \E k \in 1..Len(pgCalls) : FetchRejected(k)
    \/ \E k \in 1..Len(pgCalls) : BodyArrives(k)
    \/ \E k \in 1..Len(pgCalls) : JsonSettled(k)
    \/ \E k \in 1..Len(pgCalls) : ErrJsonSettled(k)

\* no server-side handler or function under test is running
IdleServers == IdleText /\ IdleFn /\ IdleAXFR /\ IdleRBL /\ IdleDNSBL /\ IdlePerf /\ IdleTLS

InitPage == IdleServers /\ IdlePage /\ IdleBookmarks

SpecPage == InitPage /\ [][NextPage]_vars

(***************************************************************************)
(* The bookmarks store: src/lib/stores/bookmarks.ts                        *)
(***************************************************************************)
MaxHrefs == 3

HrefNames == <<"/subnetting", "/cidr", "/dns", "/diagnostics", "/reference">>
Hrefs == {HrefNames[i] : i \in 1..MaxHrefs}

\* BookmarkedTool; label stands for label, description and icon
Tools == [href : Hrefs, label : {"A", "B"}]

HasHref(bookmarks, href) == \E i \in 1..Len(bookmarks) : bookmarks[i].href = href

DistinctHrefs(bookmarks) ==
    \A i, j \in 1..Len(bookmarks) : bookmarks[i].href = bookmarks[j].href => i = j

\* the lists of bookmarks with pairwise distinct hrefs
BookmarkLists ==
    {l \in UNION { [1..n -> Tools] : n \in 0..MaxHrefs } : DistinctHrefs(l)}

\* what localStorage.getItem returns: null for a missing item, a text that
\* is not JSON, or the JSON text of a list of tools
NoItem == [kind |-> "null", json |-> <<>>]
NotJson == [kind |-> "not json", json |-> <<>>]

\* JSON.stringify of a list of tools, and JSON.parse of such a text
JsonStringify(bookmarks) == [kind |-> "json", json |-> bookmarks]
JsonParse(text) == text.json

\* getInitialBookmarks: lines 15-27
GetInitialBookmarks(browser, stored) ==
    IF ~browser THEN <<>>
    ELSE IF stored = NoItem THEN <<>>
    ELSE IF stored = NotJson THEN <<>>
    ELSE JsonParse(stored)

\* mutant of AddBookmark: the tool is appended without the find
AddBookmarkBlind(bookmarks, tool) == Append(bookmarks, tool)

\* the list add builds: lines 48-58
AddBookmark(bookmarks, tool) ==
    IF ~HasHref(bookmarks, tool.href) THEN Append(bookmarks, tool) ELSE bookmarks

\* bookmarks.filter((b) => b.href !== href)
RemoveBookmark(bookmarks, href) == Filter(bookmarks, LAMBDA b : b.href # href)

\* the list toggle builds: lines 70-71
ToggleBookmark(bookmarks, tool) ==
    IF HasHref(bookmarks, tool.href) THEN RemoveBookmark(bookmarks, tool.href)
    ELSE Append(bookmarks, tool)

BookmarkCall(op, tool, threw) ==
    <<[op |-> op, tool |-> tool, before |-> bmList, threw |-> threw]>>

\* update(fn) with an fn that writes newBookmarks to localStorage before it
\* returns them: a setItem that throws leaves the store as it was
StoreUpdate(op, tool, newBookmarks, writes, caches, setItemThrows) ==
    IF bmBrowser /\ writes /\ setItemThrows
    THEN /\ bmLast' = BookmarkCall(op, tool, TRUE)
         /\ UNCHANGED <<bmBrowser, bmList, bmStorage, bmCache>>
    ELSE /\ bmList' = newBookmarks
         /\ bmStorage' = IF bmBrowser /\ writes THEN JsonStringify(newBookmarks)
                         ELSE bmStorage
         /\ bmCache' = IF bmBrowser /\ caches THEN bmCache \cup {tool.href}
                       ELSE bmCache
         /\ bmLast' = BookmarkCall(op, tool, FALSE)
         /\ UNCHANGED bmBrowser

\* bookmarks.init(): lines 34-45; cacheAllBookmarks is handed the list
BookmarksInit ==
    /\ IF bmBrowser
       THEN LET bookmarks == GetInitialBookmarks(bmBrowser, bmStorage)
            IN  /\ bmList' = bookmarks
                /\ bmCache' = bmCache \cup {bookmarks[i].href : i \in 1..Len(bookmarks)}
       ELSE UNCHANGED <<bmList, bmCache>>
    /\ bmLast' = BookmarkCall("init", [href |-> "", label |-> ""], FALSE)
    /\ UNCHANGED <<bmBrowser, bmStorage>>
    /\ UNCHANGED <<txVars, fnVars, axVars, rbVars, dnVars, pfVars, tlVars, pgVars>>

\* bookmarks.add(tool): lines 46-59
BookmarksAdd ==
    /\ \E tool \in Tools, setItemThrows \in BOOLEAN :
          LET newBookmarks == AddBookmark(bmList, tool)
              appended == newBookmarks # bmList
          IN  StoreUpdate("add", tool, newBookmarks, appended, appended, setItemThrows)
    /\ UNCHANGED <<txVars, fnVars, axVars, rbVars, dnVars, pfVars, tlVars, pgVars>>

\* bookmarks.remove(href): lines 60-68
BookmarksRemove ==
    /\ \E href \in Hrefs, setItemThrows \in BOOLEAN :
          StoreUpdate("remove", [href |-> href, label |-> ""],
                      RemoveBookmark(bmList, href), TRUE, FALSE, setItemThrows)
    /\ UNCHANGED <<txVars, fnVars, axVars, rbVars, dnVars, pfVars, tlVars, pgVars>>

\* bookmarks.toggle(tool): lines 69-83
BookmarksToggle ==
    /\ \E tool \in Tools, setItemThrows \in BOOLEAN :
          StoreUpdate("toggle", tool, ToggleBookmark(bmList, tool), TRUE,
                      ~HasHref(bmList, tool.href), setItemThrows)
    /\ UNCHANGED <<txVars, fnVars, axVars, rbVars, dnVars, pfVars, tlVars, pgVars>>

NextBookmarks == BookmarksInit \/ BookmarksAdd \/ BookmarksRemove \/ BookmarksToggle

\* the store as createBookmarksStore builds it: writable(getInitialBookmarks())
InitBookmarks ==
    /\ IdleServers /\ IdlePage
    /\ bmBrowser \in BOOLEAN
    /\ bmStorage \in IF bmBrowser
                     THEN {NoItem, NotJson} \cup {JsonStringify(l) : l \in BookmarkLists}
                     ELSE {NoItem}
    /\ bmList = GetInitialBookmarks(bmBrowser, bmStorage)
    /\ bmCache = {}
    /\ bmLast = <<>>

SpecBookmarks == InitBookmarks /\ [][NextBookmarks]_vars


InitChain == fnArg \in PeerStructures /\ fnRet = <<>> /\ IdleProbers

SpecChain == InitChain /\ [][ExtractChainReturn]_vars

\* the AXFR prober serving one request, or the cap applied to one NS set
InitAxfrCap ==
    /\ fnArg \in {<<>>} \cup {<<names>> : names \in NsLists}
    /\ fnRet = <<>>
    /\ IdleProbers

SpecAxfrCap == InitAxfrCap /\ [][NextAXFR \/ AxfrCapReturn]_vars

InitCipher == fnArg \in {<<remote>> : remote \in CipherRemotes} /\ fnRet = <<>> /\ IdleProbers

SpecCipher == InitCipher /\ [][CipherPresetsReturn]_vars

InitPrefs == fnArg \in {<<a>> : a \in PrefArgs} /\ fnRet = <<>> /\ IdleProbers

SpecPrefs == InitPrefs /\ [][NavbarDisplayCreate \/ HomepageLayoutCreate]_vars

InitReverse == fnArg \in ReverseArgs /\ fnRet = <<>> /\ IdleProbers

SpecReverse == InitReverse /\ [][NextReverse]_vars

(***************************************************************************)
(* The probing engine: one request to any of the four endpoints            *)
(***************************************************************************)
Init == IdleText /\ IdleFn /\ IdleAXFR /\ IdleRBL /\ IdleDNSBL /\ IdlePerf /\ IdleTLS /\ IdlePage /\ IdleBookmarks

Next == NextAXFR \/ NextDNSBL \/ NextPerf \/ NextTLS

Spec == Init /\ [][Next]_vars

(***************************************************************************)
(* Properties                                                              *)
(***************************************************************************)
IsShapeLine(output, i) == MatchesZoneRecord(SplitLines(output)[i])
ShapeLineCount(output) ==
    Cardinality({i \in 1..Len(SplitLines(output)) : IsShapeLine(output, i)})

\* C1: in every AXFR response, summary.total equals nameservers.length, the three
\* counters add up to it, and every nameserver result is counted in exactly one of
\* vulnerable (vulnerable=true), secure (not vulnerable, no error) and errors (an
\* error string)
C1_SummaryPartition ==
    axPc = "responded" =>
        LET resp == axResp[1]
            ns == resp.nameservers
            idx == 1..Len(ns)
            V == {i \in idx : ns[i].vulnerable}
            S == {i \in idx : ~ns[i].vulnerable /\ ns[i].error \in {Undefined, ""}}
            E == {i \in idx : ns[i].error \notin {Undefined, ""}}
        IN  /\ resp.summary.total = Len(ns)
            /\ resp.summary.vulnerable + resp.summary.secure + resp.summary.errors
                 = resp.summary.total
            /\ resp.summary.vulnerable = Cardinality(V)
            /\ resp.summary.secure = Cardinality(S)
            /\ resp.summary.errors = Cardinality(E)
            /\ V \cap S = {} /\ V \cap E = {} /\ S \cap E = {}
            /\ V \cup S \cup E = idx

\* a response with a vulnerable nameserver and a nameserver that failed
C1_Witness ==
    /\ axPc = "responded"
    /\ axResp[1].summary.total = 2
    /\ axResp[1].summary.vulnerable = 1
    /\ axResp[1].summary.errors = 1

\* C4: when the dig output holds no transfer-failure or connection-timeout marker
\* and at least one line of the shape `name TTL IN TYPE rdata`, testAXFR returns
\* vulnerable=true with recordCount = the number of lines of that shape
C4_ShapeLinesMeanVulnerable ==
    (/\ txRes # <<>>
     /\ ~HasTransferFailedMarker(txOut)
     /\ ~HasConnTimeoutMarker(txOut)
     /\ ShapeLineCount(txOut) >= 1)
    => (txRes[1].vulnerable /\ txRes[1].recordCount = ShapeLineCount(txOut))

\* C5: when no line of the dig output matches ^\S+\s+\d+\s+IN\s+\w+\s+, testAXFR
\* returns vulnerable=false, whatever other lines the output holds
C5_NoShapeLineMeansSecure ==
    (txRes # <<>> /\ ShapeLineCount(txOut) = 0) => ~txRes[1].vulnerable

\* an output without markers that holds a non-empty, non-comment line which is no
\* zone record, classified as refused
C5_Witness ==
    /\ txRes # <<>>
    /\ ShapeLineCount(txOut) = 0
    /\ ~HasTransferFailedMarker(txOut)
    /\ ~HasConnTimeoutMarker(txOut)
    /\ Len(OutputLines(txOut)) > 0
    /\ ~txRes[1].vulnerable
    /\ txRes[1].error = "Transfer refused (secure)"

\* C2: every blacklist response has summary.totalChecked = results.length and
\* listedCount + cleanCount + errorCount = totalChecked, whatever mix of listed,
\* clean, error-with-message and error-with-empty-message results it holds.
C2_DnsblSummaryPartition ==
    dnPc = "responded" =>
        LET r == dnResp[1]
        IN  /\ r.summary.totalChecked = Len(r.results)
            /\ r.summary.listedCount + r.summary.cleanCount + r.summary.errorCount
                   = r.summary.totalChecked

\* a response to a domain target holding all four kinds of result
C2_Witness ==
    /\ dnPc = "responded"
    /\ dnResp[1].targetType = "domain"
    /\ \E a, b, c, d \in 1..Len(dnResp[1].results) :
        LET rs == dnResp[1].results
        IN  /\ rs[a].listed
            /\ ~rs[b].listed /\ rs[b].error = Absent
            /\ OptTruthy(rs[c].error)
            /\ rs[d].error = Present(<<>>)

\* the refusal phrases the claim names
C3_Phrases ==
    { <<"a","c","c","e","s","s"," ","d","e","n","i","e","d">>,
      <<"o","p","e","n"," ","r","e","s","o","l","v","e","r">>,
      <<"q","u","e","r","y"," ","r","e","f","u","s","e","d">>,
      <<"p","l","e","a","s","e"," ","u","s","e">> }

\* the TXT text a checkRBL call received, lower-cased ("" when it received none)
C3_TxtSeen ==
    IF rbSeen.txt # <<>> /\ rbSeen.txt[1].ok
    THEN ToLowerCase(Join(Flat(rbSeen.txt[1].records), <<" ">>))
    ELSE <<>>

C3_Refused ==
    /\ rbSeen.a # <<>> /\ rbSeen.a[1].ok
    /\ \/ StartsWith(rbSeen.a[1].addrs[1], <<"1","2","7",".","2","5","5",".">>)
       \/ \E ph \in C3_Phrases : Includes(C3_TxtSeen, ph)

C6_FailuresAbsorbed ==
    /\ \A i \in 1..Len(axProbes) :
            axProbes[i].caught # <<>> =>
                /\ Settled(axProbes[i])
                /\ ~axProbes[i].result[1].vulnerable
                /\ Truthy(axProbes[i].result[1].error)
    /\ axPc = "responded" =>
            /\ axResp[1].status = 200
            /\ axResp[1].nameservers = [i \in 1..Len(axProbes) |-> axProbes[i].result[1]]
    /\ axPc = "rejected" => axProbes = <<>>
    /\ \A i \in 1..Len(pfProbes) :
            pfProbes[i].caught # <<>> =>
                /\ pfProbes[i].result # <<>>
                /\ ~pfProbes[i].result[1].success
                /\ Truthy(pfProbes[i].result[1].error)
    /\ pfPc = "responded" =>
            /\ pfResp[1].status = 200
            /\ pfResp[1].results = [i \in 1..Len(RESOLVERS) |-> pfProbes[i].result[1]]
    /\ pfPc = "rejected" => pfProbes = <<>>
    /\ \A k \in 1..Len(dnProbes) :
            (/\ dnProbes[k].stage = "done"
             /\ dnProbes[k].caught # <<>>
             /\ dnProbes[k].caught[1].code \notin {"ENOTFOUND", "ENODATA"}) =>
                /\ ~dnProbes[k].result[1].listed
                /\ dnProbes[k].result[1].error # Absent
    /\ dnPc = "responded" =>
            /\ dnResp[1].status = 200
            /\ dnResp[1].results = dnResults
            /\ Len(dnResults) = DnsblExpected(dnReq[1])
    /\ dnPc = "rejected" => dnBatch = 0

\* an AXFR response for two nameservers: one probe failed, the other found the
\* zone open
C6_Witness ==
    /\ axPc = "responded"
    /\ \E i, j \in 1..Len(axProbes) :
        /\ axProbes[i].caught # <<>>
        /\ Truthy(axResp[1].nameservers[i].error)
        /\ axResp[1].nameservers[j].vulnerable

\* C7: no prober starts a DNS lookup, child process or TLS connection for a
\* request whose target is missing or blank, whose domain is syntactically
\* invalid, or whose port is outside 1..65535.
C7_MalformedRejectedBeforeIO ==
    /\ axIO # {} => (axReq # <<>> /\ ValidateDomain(axReq[1]))
    /\ pfIO # {} => (pfReq # <<>> /\ ValidateDomain(pfReq[1].domain))
    /\ dnIO # {} =>
            /\ dnReq # <<>>
            /\ dnReq[1].type = "domain" => ValidateDomain(dnReq[1].target)
    /\ tlIO # {} =>
            /\ tlReq # <<>>
            /\ Trim(tlReq[1].host) # <<>>
            /\ tlReq[1].port \in 1..65535

\* C8: every probe in flight has its own timer armed, and every blacklist result
\* has a responseTime below 2000 ms.
C8_EveryProbeTimed ==
    /\ \A i \in 1..Len(axProbes) :
            (~Settled(axProbes[i]) /\ axPc = "probing") => axProbes[i].timer = "armed"
    /\ \A i \in 1..Len(pfProbes) :
            pfProbes[i].result = <<>> => pfProbes[i].timer = "armed"
    /\ \A k \in 1..Len(dnProbes) :
            dnProbes[k].stage \in {"a", "txt"} => dnProbes[k].timer = "armed"
    /\ \A k \in 1..Len(dnResults) : dnResults[k].responseTime < 2000

C10_AllProbesConcurrent ==
    /\ pfPc = "querying" => Len(pfProbes) = Len(RESOLVERS)
    /\ dnPc = "checking" => Len(dnResults) + Len(dnProbes) = DnsblExpected(dnReq[1])
    /\ tlPc = "probing" => Len(tlProbes) = Len(TLS_VERSIONS)

\* C11: the chain getCertificateInfo extracts never has more than 10 entries,
\* whatever the issuer links are.
C11_ChainAtMostTen ==
    fnRet # <<>> => Len(fnRet[1]) <= 10

\* C12: the extracted chain holds no certificate twice, and when the walk from
\* the peer certificate meets a certificate that is its own issuer the chain
\* ends with that certificate.
C12_ChainStopsAtSelfSigned ==
    fnRet # <<>> =>
        LET chain == fnRet[1]
        IN  /\ \A i, j \in 1..Len(chain) : chain[i] = chain[j] => i = j
            /\ \A i \in 1..Len(chain) :
                    fnArg.issuer[chain[i]] = chain[i] => i = Len(chain)

\* the position of a version name in TLS_VERSIONS
C13_Rank(name) == CHOOSE v \in 1..Len(TLS_VERSIONS) : TLS_VERSIONS[v] = name

\* C13: in every response of the version probe supportedVersions lists exactly
\* the versions reported supported, in ascending order; minVersion and
\* maxVersion are its first and last element (null when there is none) and
\* totalSupported is its length.
C13_SupportedVersionsOrdered ==
    (tlPc = "responded" /\ tlReq # <<>> /\ tlReq[1].action = "versions") =>
        LET r == tlResp[1]
            sv == r.supportedVersions
            n == Len(sv)
        IN  /\ \A k \in 1..n : sv[k] \in {TLS_VERSIONS[v] : v \in 1..Len(TLS_VERSIONS)}
            /\ \A k \in 1..(n - 1) : C13_Rank(sv[k]) < C13_Rank(sv[k + 1])
            /\ {C13_Rank(sv[k]) : k \in 1..n}
                   = {v \in 1..Len(TLS_VERSIONS) : r.supported[v] = "true"}
            /\ r.minVersion = IF n = 0 THEN "null" ELSE sv[1]
            /\ r.maxVersion = IF n = 0 THEN "null" ELSE sv[n]
            /\ r.totalSupported = n

\* a host that supports TLS 1.2 and 1.3 only
C13_Witness ==
    /\ tlPc = "responded" /\ tlReq # <<>> /\ tlReq[1].action = "versions"
    /\ tlResp[1].supportedVersions = <<"TLSv1.2", "TLSv1.3">>
    /\ tlResp[1].minVersion = "TLSv1.2"
    /\ tlResp[1].maxVersion = "TLSv1.3"
    /\ tlResp[1].supported = <<"false", "false", "true", "true">>

\* response times of the successful results of a comparator response
C14_Times(r) ==
    LET ok == SelectSeq(r.results, PerfIsSuccess)
    IN  [i \in 1..Len(ok) |-> ok[i].responseTime]

\* the k-th smallest of the times
C14_Kth(times, k) ==
    CHOOSE x \in {times[i] : i \in 1..Len(times)} :
        /\ Cardinality({i \in 1..Len(times) : times[i] < x}) < k
        /\ k <= Cardinality({i \in 1..Len(times) : times[i] <= x})

\* C14: when some resolver succeeded, statistics.median is the middle one of the
\* sorted successful response times for an odd count, and exactly the average of
\* the two middle ones for an even count (times in hundredths of a millisecond).
C14_MedianExact ==
    (pfPc = "responded" /\ Len(C14_Times(pfResp[1])) > 0) =>
        LET times == C14_Times(pfResp[1])
            n == Len(times)
            median == pfResp[1].statistics.median
        IN  IF n % 2 = 1
            THEN median = C14_Kth(times, (n + 1) \div 2)
            ELSE 2 * median = C14_Kth(times, n \div 2) + C14_Kth(times, n \div 2 + 1)

\* indexes of the successful results of a comparator response
C15_Ok(r) == {i \in 1..Len(r.results) : r.results[i].success}

\* C15: when at least one resolver succeeded, statistics.fastest (slowest) carries
\* the name and the time of a successful result whose time is the minimum
\* (maximum) over the successful results only, and successRate is
\* successful / total * 100 rounded to the nearest integer, total being the
\* whole roster.
C15_FastestSlowestRate ==
    (pfPc = "responded" /\ pfResp[1].status = 200 /\ C15_Ok(pfResp[1]) # {}) =>
        LET r == pfResp[1]
            ok == C15_Ok(r)
            st == r.statistics
        IN  /\ \E i \in ok :
                    /\ st.fastest.resolver = r.results[i].resolverName
                    /\ st.fastest.time = r.results[i].responseTime
                    /\ \A j \in ok : r.results[i].responseTime <= r.results[j].responseTime
            /\ \E i \in ok :
                    /\ st.slowest.resolver = r.results[i].resolverName
                    /\ st.slowest.time = r.results[i].responseTime
                    /\ \A j \in ok : r.results[i].responseTime >= r.results[j].responseTime
            /\ Len(r.results) = Len(RESOLVERS)
            /\ 2 * Len(r.results) * st.successRate - Len(r.results)
                    <= 200 * Cardinality(ok)
            /\ 200 * Cardinality(ok)
                    < 2 * Len(r.results) * st.successRate + Len(r.results)

\* the first resolver failed, two later ones answered with different times
C15_Witness ==
    /\ pfPc = "responded" /\ pfResp[1].status = 200
    /\ ~pfResp[1].results[1].success
    /\ pfResp[1].results[1].responseTime = 0
    /\ \E i, j \in C15_Ok(pfResp[1]) :
            pfResp[1].results[i].responseTime < pfResp[1].results[j].responseTime
    /\ pfResp[1].statistics.successRate \in {50, 75}

\* an address in the notation of RFC 4291: 8 groups, or fewer groups and one "::"
C16_Parts(ip) == SplitOn(ip, ":", <<>>)
C16_Groups(ip) == SelectSeq(C16_Parts(ip), IsNonEmpty)
\* the groups before the first empty part, and the groups after the last one
C16_Left(ip) ==
    LET parts == C16_Parts(ip)
        firstEmpty == CHOOSE i \in 1..Len(parts) :
                          parts[i] = <<>> /\ \A j \in 1..(i - 1) : parts[j] # <<>>
    IN  SubSeq(parts, 1, firstEmpty - 1)
C16_Right(ip) ==
    LET parts == C16_Parts(ip)
        lastEmpty == CHOOSE i \in 1..Len(parts) :
                         parts[i] = <<>> /\ \A j \in (i + 1)..Len(parts) : parts[j] # <<>>
    IN  SubSeq(parts, lastEmpty + 1, Len(parts))
C16_Compressed(ip) == \E i \in 1..Len(C16_Parts(ip)) : C16_Parts(ip)[i] = <<>>
C16_WellFormed(ip) ==
    /\ IsIPv6(ip)
    /\ IF C16_Compressed(ip)
       THEN LET empties == Len(C16_Parts(ip)) - Len(C16_Groups(ip))
                l == Len(C16_Left(ip))
                r == Len(C16_Right(ip))
            IN  /\ l + r = Len(C16_Groups(ip))
                /\ l + r <= 7
                /\ empties = 1 + (IF l = 0 THEN 1 ELSE 0) + (IF r = 0 THEN 1 ELSE 0)
       ELSE Len(C16_Parts(ip)) = 8

\* the 8 groups of the address, each padded to 4 hex digits
C16_Expanded(ip) ==
    LET pad(groups) == [i \in 1..Len(groups) |-> PadStartZero(groups[i], 4)]
    IN  IF C16_Compressed(ip)
        THEN pad(C16_Left(ip))
             \o [i \in 1..(8 - Len(C16_Groups(ip))) |-> <<"0","0","0","0">>]
             \o pad(C16_Right(ip))
        ELSE pad(C16_Parts(ip))

\* C16: for an address the checker classifies as IPv6, compressed forms with
\* groups after the "::" included, reverseIPv6 returns the 32 nibbles of the
\* fully expanded 8-group address in reverse order, separated by dots.
C16_ReverseIPv6Nibbles ==
    (fnArg # <<>> /\ fnArg[1].fn = "reverseIPv6" /\ fnRet # <<>>
        /\ C16_WellFormed(fnArg[1].ip)) =>
        LET nibbles == Reverse(Flat(C16_Expanded(fnArg[1].ip)))
        IN  /\ Len(nibbles) = 32
            /\ fnRet[1] = Join([i \in 1..32 |-> <<nibbles[i]>>], <<".">>)

\* C17: for every string isIPv4 accepts, reversing the reversed string gives the
\* string back.
C17_ReverseIPv4Involution ==
    (fnArg # <<>> /\ fnArg[1].fn = "reverseIPv4" /\ Len(fnRet) = 2
        /\ IsIPv4(fnArg[1].ip)) => fnRet[2] = fnArg[1].ip

\* an accepted address whose octets do not read the same backwards, reversed twice
C17_Witness ==
    /\ fnArg # <<>> /\ fnArg[1].fn = "reverseIPv4" /\ Len(fnRet) = 2
    /\ IsIPv4(fnArg[1].ip)
    /\ fnRet[1] # fnArg[1].ip
    /\ fnRet[1] = <<"9","9","9",".","0","2",".","0","2",".","1">>

\* the name an IP zone is asked for: the octets of an IPv4 address in reverse
\* order, or the 32 nibbles of the expanded IPv6 address in reverse order, then
\* the zone
C18_Key(ip, zone) ==
    (IF IsIPv4(ip)
     THEN Join(Reverse(SplitOn(ip, ".", <<>>)), <<".">>)
     ELSE LET nibbles == Reverse(Flat(C16_Expanded(ip)))
          IN  Join([i \in 1..Len(nibbles) |-> <<nibbles[i]>>], <<".">>))
    \o <<".">> \o zone

C18_DomainZones == {i \in 1..Len(RBLS) : Includes(RBLS[i].zone, <<"d","b","l">>)}
C18_IpZones == (1..Len(RBLS)) \ C18_DomainZones

\* the lookups in flight are one per zone of the set, each asked for the key
C18_OnePerZone(probes, zones, ip, isDomain) ==
    /\ Len(probes) = Cardinality(zones)
    /\ \A z \in zones : \E k \in 1..Len(probes) : probes[k].rbl = z
    /\ \A k \in 1..Len(probes) :
        /\ probes[k].rbl \in zones
        /\ probes[k].query # <<>> =>
               probes[k].query = (IF isDomain THEN ip \o <<".">> \o RBLS[probes[k].rbl].zone
                                  ELSE C18_Key(ip, RBLS[probes[k].rbl].zone))

\* the zones looked up are selected by the kind of the target
C18_ZonesByKind ==
    dnPc = "checking" =>
        LET req == dnReq[1]
        IN  IF req.type # "domain"
            THEN C18_OnePerZone(dnProbes, C18_IpZones, req.target, FALSE)
            ELSE IF dnBatch = 1
            THEN C18_OnePerZone(dnProbes, C18_DomainZones, req.target, TRUE)
            ELSE C18_OnePerZone(dnProbes, C18_IpZones, req.ips[dnBatch - 1], FALSE)

\* the results are the domain zones' and then, address by address, the IP zones',
\* these labelled with the address
C18_ResultsByKind ==
    (dnPc = "responded" /\ dnResp[1].status = 200) =>
        LET r == dnResp[1]
            nd == Cardinality(C18_DomainZones)
            ni == Cardinality(C18_IpZones)
        IN  IF r.targetType # "domain"
            THEN /\ Len(r.results) = ni
                 /\ \A k \in 1..ni : RBLS[k + nd].name = r.results[k].rbl.name
            ELSE /\ Len(r.results) = nd + Len(r.resolvedIPs) * ni
                 /\ \A k \in 1..nd : r.results[k].rbl.ip = <<>>
                 /\ \A a \in 1..Len(r.resolvedIPs) : \A k \in 1..ni :
                        r.results[nd + (a - 1) * ni + k].rbl.ip = r.resolvedIPs[a]

\* C18: a bare IP is looked up in the IP zones only, once per zone, under its
\* reversed form; a domain is looked up in the domain zones under its own name
\* and each of its k resolved addresses in every IP zone under the address
\* reversed; the response has |domain zones| + k * |IP zones| results, the
\* per-address ones labelled with the address.
C18_ZoneSelection == C18_ZonesByKind /\ C18_ResultsByKind

\* the results of the lookups that failed, with the failure each one caught
C19_Failed(probes) ==
    {k \in 1..Len(probes) : probes[k].stage = "done" /\ probes[k].caught # <<>>}

C19_Classified(p) ==
    LET err == p.caught[1]
        r == p.result[1]
    IN  /\ ~r.listed
        /\ IF err.code \in {"ENOTFOUND", "ENODATA"}
           THEN /\ r.error = Absent
                /\ DnsblSummary(<<r>>).cleanCount = 1
                /\ DnsblSummary(<<r>>).errorCount = 0
           ELSE /\ DnsblSummary(<<r>>).errorCount = 1
                /\ DnsblSummary(<<r>>).cleanCount = 0

C20_TimeoutCarriesElapsed ==
    /\ axPc = "responded" =>
            \A i \in 1..Len(axProbes) :
                axProbes[i].caught = <<AxfrTimerError>> =>
                    axResp[1].nameservers[i].responseTime >= AXFR_TIMEOUT_MS - 4
    /\ (pfPc = "responded" /\ pfResp[1].status = 200) =>
            \A i \in 1..Len(pfResp[1].results) :
                pfResp[1].results[i].error = "Query timeout (>5s)" =>
                    pfResp[1].results[i].responseTime >= (DNS_TIMEOUT_MS - 4) * 100
    /\ (dnPc = "responded" /\ dnResp[1].status = 200) =>
            \A k \in 1..Len(dnResp[1].results) :
                dnResp[1].results[k].error = Present(MsgTimeout) =>
                    dnResp[1].results[k].responseTime >= 996

\* C21: a comparator response holds exactly one result per roster resolver, in
\* roster order; a successful result has records and no error, a failed one has
\* a non-empty error string and no records.
C21_OneResultPerResolver ==
    (pfPc = "responded" /\ pfResp[1].status = 200) =>
        LET results == pfResp[1].results
        IN  /\ Len(results) = Len(RESOLVERS)
            /\ \A i \in 1..Len(results) :
                /\ results[i].resolver = RESOLVERS[i].ip
                /\ results[i].resolverName = RESOLVERS[i].name
                /\ results[i].success =>
                       /\ results[i].records # <<>>
                       /\ results[i].error = Undefined
                /\ ~results[i].success =>
                       /\ results[i].error \notin {Undefined, ""}
                       /\ results[i].records = <<>>

\* a response with an answer, a failure without code or message, and a timeout
C21_Witness ==
    /\ pfPc = "responded" /\ pfResp[1].status = 200
    /\ \E i, j, k \in 1..Len(pfResp[1].results) :
        /\ pfResp[1].results[i].success
        /\ pfResp[1].results[j].error = "Unknown error"
        /\ pfProbes[j].caught = <<[code |-> Undefined, message |-> ""]>>
        /\ pfResp[1].results[k].error = "Query timeout (>5s)"
        /\ pfProbes[k].timer = "fired"

\* the lines of the output that testAXFR counts as zone records, in output order
C22_Matched == ZoneRecords(OutputLines(txOut))

\* C22: for a vulnerable result recordCount is the number of matched zone-record
\* lines and records is their prefix of length min(recordCount, 50), so records
\* never has more than 50 entries and has 50 when recordCount exceeds 50.
C22_RecordsArePrefix ==
    (txRes # <<>> /\ txRes[1].vulnerable) =>
        LET r == txRes[1]
        IN  /\ r.recordCount = Len(C22_Matched)
            /\ Len(r.records) = (IF r.recordCount <= 50 THEN r.recordCount ELSE 50)
            /\ \A k \in 1..Len(r.records) : r.records[k] = C22_Matched[k]

\* a dump of 52 records of which the first 50 are exposed
C22_Witness ==
    /\ txRes # <<>> /\ txRes[1].vulnerable
    /\ txRes[1].recordCount = 52
    /\ Len(txRes[1].records) = 50
    /\ txRes[1].records[2] = LineRecordNs
    /\ txRes[1].records[50] = C22_Matched[50]

C23_ExplicitNs == <<"n", "9">>

\* C23: a response never reports more than 10 nameservers: of an NS set of more
\* than 10 names the first 10 are probed; with a nameserver given in the request
\* that one alone is probed and the NS set of the domain is not looked up.
C23_AtMostTenNameservers ==
    /\ (fnArg # <<>> /\ fnRet # <<>>) =>
            LET names == fnArg[1]
                probes == fnRet[1]
            IN  /\ Len(probes) = (IF Len(names) > 10 THEN 10 ELSE Len(names))
                /\ \A i \in 1..Len(probes) : probes[i].ns = names[i]
    /\ Len(axProbes) <= 10
    /\ (axPc = "responded" /\ axResp[1].status = 200) =>
            /\ Len(axResp[1].nameservers) = Len(axProbes)
            /\ \A i \in 1..Len(axProbes) :
                   axResp[1].nameservers[i].nameserver = axProbes[i].ns
    /\ (\E i \in 1..Len(axProbes) : axProbes[i].ns = C23_ExplicitNs) =>
            /\ Len(axProbes) = 1
            /\ "resolveNs" \notin axIO

\* an NS set of 11 names of which 10 are probed
C23_Witness ==
    /\ fnArg # <<>> /\ fnRet # <<>>
    /\ Len(fnArg[1]) = 11
    /\ Len(fnRet[1]) = 10
    /\ fnArg[1][10] # fnArg[1][11]

\* a response to a request that names its nameserver
C23_WitnessExplicit ==
    /\ axPc = "responded" /\ axResp[1].status = 200
    /\ Len(axResp[1].nameservers) = 1
    /\ axResp[1].nameservers[1].nameserver = C23_ExplicitNs

\* C24: stapling is reported present (staplingEnabled, an ocspResponse, no
\* recommendation) exactly when the 'OCSPResponse' event delivered a stapled
\* response before the grace timer fired, and otherwise disabled (not
\* staplingEnabled, ocspResponse null, the recommendation to enable it).
C24_StaplingConsistent ==
    (tlPc = "responded" /\ tlReq[1].action = "ocsp-stapling" /\ tlResp[1].status = 200) =>
        LET r == tlResp[1]
            delivered == tlOut.stapled /\ tlOut.ocspData = "bytes"
        IN  IF delivered
            THEN /\ r.staplingEnabled
                 /\ r.ocspResponse # "null"
                 /\ r.recommendations = <<>>
            ELSE /\ ~r.staplingEnabled
                 /\ r.ocspResponse = "null"
                 /\ r.recommendations = <<StrEnableStapling>>

\* the target as the claim normalizes it: trimmed, lower-cased, and without the
\* trailing dot of a fully-qualified name
C25_Normalized(raw) ==
    LET t == ToLowerCase(Trim(raw))
    IN  IF Len(t) > 1 /\ t[Len(t)] = "." THEN SubSeq(t, 1, Len(t) - 1) ELSE t

\* C25: the target of a blacklist response is the request's target trimmed,
\* lower-cased and with the trailing dot of a fully-qualified name removed.
C25_TargetNormalized ==
    (dnPc = "responded" /\ dnResp[1].status = 200) =>
        dnResp[1].target = C25_Normalized(dnReq[1].raw)

\* C26: two invocations of the cipher-preset assessment against the same host
\* behaving identically return the same supported flags, the same cipher lists
\* and the same grade.
C26_Deterministic ==
    Len(fnRet) = 2 => fnRet[1] = fnRet[2]

\* the value the documented order gives: the stored value when the browser has
\* a valid one, else the configured default when valid, else the built-in one
C27_Documented(a) ==
    LET options == IF a.store = "navbarDisplay" THEN NavbarDisplayIds ELSE HomepageLayoutIds
        builtin == IF a.store = "navbarDisplay" THEN "default" ELSE "categories"
    IN  IF a.browser /\ a.stored \in options THEN a.stored
        ELSE IF a.env \in options THEN a.env
        ELSE builtin

\* C27: the initial value of a preference store is the valid stored value, else
\* the valid environment-configured default, else the built-in default; an
\* invalid value is never the store's value.
C27_InitialValueOrder ==
    (fnArg # <<>> /\ fnRet # <<>>) =>
        /\ fnRet[1] = C27_Documented(fnArg[1])
        /\ fnRet[1] \in (IF fnArg[1].store = "navbarDisplay"
                          THEN NavbarDisplayIds ELSE HomepageLayoutIds)

\* C28: every nameserver result that is not vulnerable carries a non-empty
\* error string, so the summary of every AXFR response has secure = 0 and
\* errors = total - vulnerable.
C28_NonVulnerableHasError ==
    (axPc = "responded" /\ axResp[1].status = 200) =>
        LET r == axResp[1]
        IN  /\ \A i \in 1..Len(r.nameservers) :
                   ~r.nameservers[i].vulnerable =>
                       r.nameservers[i].error \notin {Undefined, ""}
            /\ r.summary.secure = 0
            /\ r.summary.errors = r.summary.total - r.summary.vulnerable

\* a response with a refusal and a nameserver that could not be resolved
C28_Witness ==
    /\ axPc = "responded" /\ axResp[1].status = 200
    /\ Len(axResp[1].nameservers) = 2
    /\ axResp[1].nameservers[1].error = "Transfer refused (secure)"
    /\ axResp[1].nameservers[2].error = "Failed to resolve nameserver"
    /\ axResp[1].summary.errors = 2
    /\ axResp[1].summary.secure = 0

\* C29: on the query-performance page a superseded request never writes:
\* the displayed results or error belong to the most recently issued request,
\* results is null while that request is outstanding, and loading is true
\* exactly while the most recently issued request has not settled.
C29_LatestOutstanding ==
    pgRequestId > 0 /\ pgCalls[pgRequestId].pc # "done"

C29_OnlyLatestRequestWrites ==
    /\ pgResults # <<>> => pgResults[1].of = pgRequestId
    /\ pgError # <<>> => pgError[1].of = pgRequestId
    /\ C29_LatestOutstanding => pgResults = <<>>
    /\ pgLoading = C29_LatestOutstanding

C30_WitnessToggle ==
    /\ bmBrowser
    /\ bmLast # <<>> /\ bmLast[1].op = "toggle" /\ ~bmLast[1].threw
    /\ bmList = Append(bmLast[1].before, bmLast[1].tool)
    /\ Len(bmList) = 3
    /\ bmStorage = JsonStringify(bmList)

====
